---- MODULE Spec2Model ----
(***************************************************************************)
(* Block-cipher mode and attack toolkit (cryptopals sets 1 and 2).         *)
(*                                                                         *)
(* Byte strings are sequences of integers 0..255, strings are sequences of *)
(* Unicode code points.  Results of fallible functions are records         *)
(* [tag, val, msg]: tag is "Some"/"None" for Option, "Ok"/"Err" for        *)
(* Result and "Panic" when the call aborts the thread.                     *)
(***************************************************************************)
EXTENDS Integers, Sequences, FiniteSets, TLC

VARIABLES
    padPc,        \* padding harness: "start", "padded", "roundtrip", "stripped"
    padBytes,     \* the byte string handed to pad_pkcs7 / strip_pkcs7
    padLength,    \* the target length handed to pad_pkcs7
    padResult,    \* Result returned by pad_pkcs7
    stripResult,  \* Option returned by strip_pkcs7
    cbcPc,        \* CBC harness: "start", "encrypted", "decrypted", "tampered",
                  \* "redecrypted", "truncated" ("idle" when the harness is
                  \* not running)
    cbcKey,       \* key handed to encrypt_cbc / decrypt_cbc
    cbcIv,        \* IV handed to encrypt_cbc / decrypt_cbc
    cbcData,      \* plaintext handed to encrypt_cbc
    cbcEncrypted, \* what encrypt_cbc returned
    cbcPadded,    \* decrypt_cbc's local `padded` for that ciphertext
    cbcDecrypted, \* what decrypt_cbc returned for that ciphertext
    cbcFlip,      \* [block, bit] the attacker flipped in the ciphertext
    cbcTampered,  \* the ciphertext after the flip or the truncation
    cbcTamperedPadded,    \* decrypt_cbc's local `padded` for cbcTampered
    cbcTamperedDecrypted, \* what decrypt_cbc returned for cbcTampered
    ckPc,         \* profile oracle harness: "start", "encrypted", "decrypted",
                  \* "forged", "forged_decrypted"
    ckKey,        \* ProfileCookieOracle::key
    ckEmail,      \* the email handed to encrypt_cookie
    ckCookie,     \* what encrypt_cookie returned
    ckTampered,   \* challenge_13's spliced ciphertext
    ckProfile,    \* what decrypt_cookie returned
    coPc,         \* CBC cookie oracle harness: "start", "encrypted",
                  \* "decrypted", "tampered", "tampered_decrypted"
    coKey,        \* CBCCookieOracle's key
    coIv,         \* CBCCookieOracle's IV
    coUserdata,   \* the userdata handed to oracle.encrypt
    coCiphertext, \* challenge_16::ciphertext
    coResult,     \* what oracle.decrypt returned
    sufPc,        \* decrypt_ecb_suffix: "loop" or "done"
    sufKey,       \* UnknownStringOracle::key
    sufSuffix,    \* the string the oracle appends to its input
    sufI,         \* loop variable i of decrypt_ecb_suffix
    sufDecrypted, \* decrypt_ecb_suffix::decrypted
    sufResult,    \* the String decrypt_ecb_suffix returns
    psPc,         \* parse_cookie harness: "start" or "parsed"
    psString,     \* the string handed to parse_cookie
    psMap,        \* the map parse_cookie returned
    dePc,         \* detect_ecb harness: "start" or "done"
    deBytes,      \* the byte string handed to detect_ecb
    deBlockSize,  \* the block size handed to detect_ecb
    deCount,      \* what max_repeated_blocks returned
    deDetected,   \* what detect_ecb returned
    bsPc,         \* detect_block_size: "loop" or "done"
    bsBlockSize,  \* block size of the cipher behind `encrypt`
    bsKey,        \* key of the oracle behind `encrypt`
    bsSuffix,     \* the string that oracle appends to its input
    bsI,          \* loop variable i of detect_block_size
    bsInput,      \* detect_block_size::input
    bsEncrypted,  \* detect_block_size::encrypted
    bsResult,     \* the Option detect_block_size returns
    eoPc,         \* challenge_11: "start", "encrypted" or "detected"
    eoData,       \* the data handed to encryption_oracle
    eoKey,        \* encryption_oracle::key
    eoPrefix,     \* the random bytes put before the data
    eoSuffix,     \* the random bytes put after the data
    eoCbc,        \* encryption_oracle::cbc
    eoIv,         \* encryption_oracle::iv (empty when ECB is used)
    eoEncrypted,  \* the ciphertext encryption_oracle returned
    eoDetected,   \* what detect_ecb(&encrypted, 16) returned
    sbPc,         \* single_byte_brute_force harness: "start" or "done"
    sbCiphertext, \* the ciphertext handed to single_byte_brute_force
    sbResult,     \* the (best_score, result, key) it returned
    ksPc,         \* get_keysizes harness: "start" or "done"
    ksCiphertext, \* the ciphertext handed to get_keysizes
    ksRange,      \* the Range<usize> handed to it: [start, end]
    ksLimit,      \* the limit handed to it
    ksResult,     \* the Vec<usize> it returned
    ltPc,         \* oracle lifetime harness: "ready" ("idle" when not running)
    ltKey,        \* UnknownStringOracle::key
    ltCookieKey,  \* ProfileCookieOracle::key
    ltCalls,      \* the calls made so far: [op, input, output]
    trPc,         \* challenge_6's transposition: "start" or "done"
    trCiphertext, \* challenge_6::ciphertext
    trSize,       \* the key size handed to ciphertext.chunks
    trResult      \* what bytes::transpose returned

padVars == <<padPc, padBytes, padLength, padResult, stripResult>>
cbcVars == <<cbcPc, cbcKey, cbcIv, cbcData, cbcEncrypted, cbcPadded,
             cbcDecrypted, cbcFlip, cbcTampered, cbcTamperedPadded,
             cbcTamperedDecrypted>>

cookieVars == <<ckPc, ckKey, ckEmail, ckCookie, ckTampered, ckProfile>>

cbcCookieVars == <<coPc, coKey, coIv, coUserdata, coCiphertext, coResult>>

suffixVars == <<sufPc, sufKey, sufSuffix, sufI, sufDecrypted, sufResult>>

parseVars == <<psPc, psString, psMap>>

detectVars == <<dePc, deBytes, deBlockSize, deCount, deDetected>>

blockSizeVars == <<bsPc, bsBlockSize, bsKey, bsSuffix, bsI, bsInput,
                   bsEncrypted, bsResult>>

oracleVars == <<eoPc, eoData, eoKey, eoPrefix, eoSuffix, eoCbc, eoIv,
                eoEncrypted, eoDetected>>

bruteVars == <<sbPc, sbCiphertext, sbResult>>

keysizeVars == <<ksPc, ksCiphertext, ksRange, ksLimit, ksResult>>

lifetimeVars == <<ltPc, ltKey, ltCookieKey, ltCalls>>

transposeVars == <<trPc, trCiphertext, trSize, trResult>>

vars == <<padVars, cbcVars, cookieVars, cbcCookieVars, suffixVars,
          parseVars, detectVars, blockSizeVars, oracleVars, bruteVars,
          keysizeVars, lifetimeVars, transposeVars>>

----------------------------------------------------------------------------
(* Result values *)

NoResult == [tag |-> "NoResult", val |-> <<>>, msg |-> ""]
Some(v) == [tag |-> "Some", val |-> v, msg |-> ""]
None == [tag |-> "None", val |-> <<>>, msg |-> ""]
Ok(v) == [tag |-> "Ok", val |-> v, msg |-> ""]
Err(m) == [tag |-> "Err", val |-> <<>>, msg |-> m]
Panic == [tag |-> "Panic", val |-> <<>>, msg |-> ""]

Min(a, b) == IF a < b THEN a ELSE b

\* Number of values of a u8; `pad as u8` and the `pad < 256` guard.
U8Range == 256

\* All sequences over S of length at most n.
SeqsUpTo(S, n) == UNION {[1..k -> S] : k \in 0..n}

----------------------------------------------------------------------------
(* PKCS#7 padding: utils/crypto.rs *)

\* Mutant: the fill byte is the target length instead of the pad count.
pad_pkcs7_fill_length(bytes, length) ==
    IF length < Len(bytes)
    THEN Err("Padded size less than original size.")
    ELSE IF length - Len(bytes) < U8Range
         THEN Ok([i \in 1..length |->
                    IF i <= Len(bytes) THEN bytes[i] ELSE length % U8Range])
         ELSE Err("Padding length exceeds 255 bytes.")

\* Mutant: the guard admits a pad count of 256, which `as u8` wraps to 0.
pad_pkcs7_off_by_one(bytes, length) ==
    IF length < Len(bytes)
    THEN Err("Padded size less than original size.")
    ELSE IF length - Len(bytes) <= U8Range
         THEN Ok([i \in 1..length |->
                    IF i <= Len(bytes) THEN bytes[i]
                    ELSE (length - Len(bytes)) % U8Range])
         ELSE Err("Padding length exceeds 255 bytes.")

\* length.checked_sub(bytes.len()) is None when length < len; otherwise the
\* bytes are chained with repeat(pad as u8) and cut at `length`.
pad_pkcs7(bytes, length) ==
    IF length < Len(bytes)
    THEN Err("Padded size less than original size.")
    ELSE LET pad == length - Len(bytes) IN
         IF pad < U8Range
         THEN Ok([i \in 1..length |->
                    IF i <= Len(bytes) THEN bytes[i] ELSE pad % U8Range])
         ELSE Err("Padding length exceeds 255 bytes.")

\* Mutant: only the last byte is inspected, the other pad bytes are trusted.
strip_pkcs7_last_only(bytes) ==
    IF Len(bytes) = 0 THEN None
    ELSE LET pad == bytes[Len(bytes)] IN
         IF pad > Len(bytes) THEN Panic
         ELSE Some(SubSeq(bytes, 1, Len(bytes) - pad))

\* bytes.iter().rev().take(pad).all(..) looks at min(pad, len) bytes, so it
\* also accepts a string shorter than pad whose bytes all equal pad; the
\* slice bound bytes.len() - pad then underflows and the call panics.
strip_pkcs7(bytes) ==
    IF Len(bytes) = 0 THEN None
    ELSE LET n == Len(bytes)
             pad == bytes[n] IN
         IF \A i \in 1..Min(pad, n) : bytes[n + 1 - i] = pad
         THEN IF pad > n THEN Panic
              ELSE Some(SubSeq(bytes, 1, n - pad))
         ELSE None

----------------------------------------------------------------------------
(* Bytes: utils/bytes.rs *)

RECURSIVE BitXor(_, _, _)
\* x ^ y on the low `bits` bits
BitXor(x, y, bits) ==
    IF bits = 0 THEN 0
    ELSE ((x + y) % 2) + 2 * BitXor(x \div 2, y \div 2, bits - 1)

\* *x ^ *y on u8
Xor8(x, y) == BitXor(x, y, 8)

\* Mutant: the zip is replaced by the first operand (no XOR is applied).
xor_identity(a, b) == [i \in 1..Min(Len(a), Len(b)) |-> a[i]]

\* a.zip(b).map(|(x, y)| x ^ y): the longer operand is truncated.
xor(a, b) == [i \in 1..Min(Len(a), Len(b)) |-> Xor8(a[i], b[i])]

\* slice.chunks(size): consecutive chunks, the last one possibly short.
Chunks(data, size) ==
    [k \in 1..((Len(data) + size - 1) \div size) |->
        SubSeq(data, (k - 1) * size + 1, Min(k * size, Len(data)))]

RECURSIVE Concat(_)
\* blocks.into_iter().flat_map(|block| block.into_iter()).collect()
\* (halving keeps the evaluation depth logarithmic)
Concat(blocks) ==
    IF blocks = <<>> THEN <<>>
    ELSE IF Len(blocks) = 1 THEN blocks[1]
    ELSE LET half == Len(blocks) \div 2 IN
         Concat(SubSeq(blocks, 1, half))
            \o Concat(SubSeq(blocks, half + 1, Len(blocks)))

Reverse(s) == [i \in 1..Len(s) |-> s[Len(s) + 1 - i]]

----------------------------------------------------------------------------
(* The block primitive (OpenSSL AES-128 behind run_crypter), as a keyed     *)
(* permutation of blocks: key whitening, then two chained substitution      *)
(* passes in opposite directions so that every output byte depends on every *)
(* input byte.  DecryptBlock undoes EncryptBlock step by step.              *)

\* AES-128: 16-byte blocks and 16-byte keys.
BlockSize == 16
KeySize == 16

SBox(v) == (v * 5 + 17) % U8Range
InvSBox(v) == ((v + U8Range - 17) * 205) % U8Range

RECURSIVE Diffuse(_, _)
Diffuse(a, carry) ==
    IF a = <<>> THEN <<>>
    ELSE LET v == SBox((Head(a) + carry) % U8Range) IN
         <<v>> \o Diffuse(Tail(a), v)

RECURSIVE Undiffuse(_, _)
Undiffuse(b, carry) ==
    IF b = <<>> THEN <<>>
    ELSE <<(InvSBox(Head(b)) + U8Range - carry) % U8Range>>
            \o Undiffuse(Tail(b), Head(b))

EncryptBlock(key, block) ==
    Reverse(Diffuse(Reverse(Diffuse(xor(block, key), 0)), 0))

DecryptBlock(key, block) ==
    xor(Undiffuse(Reverse(Undiffuse(Reverse(block), 0)), 0), key)

----------------------------------------------------------------------------
(* Mode layer: utils/crypto.rs *)

\* A call that returned `v` (for functions that return a plain value but can
\* abort through unwrap()).
Ret(v) == [tag |-> "Ret", val |-> v, msg |-> ""]

\* Padding OpenSSL adds when crypter.pad(true): always 1..BlockSize bytes.
OpenSslPad(data) ==
    LET pad == BlockSize - (Len(data) % BlockSize) IN
    data \o [i \in 1..pad |-> pad]

\* Padding check of EVP_DecryptFinal: Ret(unpadded) or Panic (finalize's Err is
\* unwrapped by run_crypter).
OpenSslUnpad(data) ==
    IF Len(data) = 0 THEN Panic
    ELSE LET n == Len(data)
             pad == data[n] IN
         IF pad = 0 \/ pad > BlockSize THEN Panic
         ELSE IF \A i \in 1..pad : data[n + 1 - i] = pad
              THEN Ret(SubSeq(data, 1, n - pad))
              ELSE Panic

\* run_crypter(aes_128_ecb, Encrypt, ..): Crypter::new(..).unwrap() aborts on a
\* key of the wrong size, finalize(..).unwrap() on unpadded data that is not a
\* whole number of blocks.  ECB takes no IV.
encrypt_ecb(key, iv, data, pad) ==
    IF Len(key) # KeySize THEN Panic
    ELSE IF ~pad /\ Len(data) % BlockSize # 0 THEN Panic
    ELSE LET padded == IF pad THEN OpenSslPad(data) ELSE data
             blocks == Chunks(padded, BlockSize) IN
         Ret(Concat([k \in 1..Len(blocks) |-> EncryptBlock(key, blocks[k])]))

\* run_crypter(aes_128_ecb, Decrypt, ..)
decrypt_ecb(key, iv, data, pad) ==
    IF Len(key) # KeySize THEN Panic
    ELSE IF Len(data) % BlockSize # 0 THEN Panic
    ELSE LET blocks == Chunks(data, BlockSize)
             plain == Concat([k \in 1..Len(blocks) |->
                                DecryptBlock(key, blocks[k])]) IN
         IF pad THEN OpenSslUnpad(plain) ELSE Ret(plain)

RECURSIVE EncryptCbcLoop(_, _, _, _)
\* for block in padded.chunks(block_size) { .. blocks.push(..) }
EncryptCbcLoop(key, iv, chunks, blocks) ==
    IF Len(blocks) = Len(chunks) THEN Ret(blocks)
    ELSE LET block == chunks[Len(blocks) + 1]
             chained == xor(block, IF blocks = <<>> THEN iv
                                    ELSE blocks[Len(blocks)])
             enc == encrypt_ecb(key, None, chained, FALSE) IN
         IF enc.tag = "Panic" THEN Panic
         ELSE EncryptCbcLoop(key, iv, chunks, Append(blocks, enc.val))

RECURSIVE EncryptCbcLoopNoChain(_, _, _, _)
\* Mutant: every block is XORed with the IV instead of the previous
\* ciphertext block.
EncryptCbcLoopNoChain(key, iv, chunks, blocks) ==
    IF Len(blocks) = Len(chunks) THEN Ret(blocks)
    ELSE LET enc == encrypt_ecb(key, None,
                                xor(chunks[Len(blocks) + 1], iv), FALSE) IN
         IF enc.tag = "Panic" THEN Panic
         ELSE EncryptCbcLoopNoChain(key, iv, chunks, Append(blocks, enc.val))

encrypt_cbc_no_chain(key, iv, data) ==
    LET padded == pad_pkcs7(data, (Len(data) \div BlockSize + 1) * BlockSize) IN
    IF padded.tag # "Ok" THEN Panic
    ELSE LET blocks == EncryptCbcLoopNoChain(key, iv,
                           Chunks(padded.val, BlockSize), <<>>) IN
         IF blocks.tag = "Panic" THEN Panic ELSE Ret(Concat(blocks.val))

\* Mutant: the number of blocks is rounded up instead of len / 16 + 1, so a
\* plaintext that already fills its blocks gets no padding block.
encrypt_cbc_round_up(key, iv, data) ==
    LET block_size == BlockSize
        num_blocks == (Len(data) + block_size - 1) \div block_size
        padded == pad_pkcs7(data, num_blocks * block_size) IN
    IF padded.tag # "Ok" THEN Panic
    ELSE LET blocks == EncryptCbcLoop(key, iv,
                           Chunks(padded.val, block_size), <<>>) IN
         IF blocks.tag = "Panic" THEN Panic ELSE Ret(Concat(blocks.val))

\* Ret(ciphertext), or Panic when one of the unwrap()s fails.
encrypt_cbc(key, iv, data) ==
    LET block_size == BlockSize
        num_blocks == Len(data) \div block_size + 1
        padded == pad_pkcs7(data, num_blocks * block_size) IN
    IF padded.tag # "Ok" THEN Panic
    ELSE LET blocks == EncryptCbcLoop(key, iv,
                           Chunks(padded.val, block_size), <<>>) IN
         IF blocks.tag = "Panic" THEN Panic ELSE Ret(Concat(blocks.val))

RECURSIVE DecryptCbcLoop(_, _, _, _, _)
\* data.chunks(16).flat_map(|block| ..): `last` is the previous ciphertext
\* block (the IV before the first one); out is what has been produced so far.
DecryptCbcLoop(key, last, chunks, k, out) ==
    IF k > Len(chunks) THEN Ret(out)
    ELSE LET decrypted == decrypt_ecb(key, None, chunks[k], FALSE) IN
         IF decrypted.tag = "Panic" THEN Panic
         ELSE DecryptCbcLoop(key, chunks[k], chunks, k + 1,
                             out \o xor(decrypted.val, last))

RECURSIVE DecryptCbcLoopStaleLast(_, _, _, _, _)
\* Mutant: `last` is never advanced, every block is XORed with the IV.
DecryptCbcLoopStaleLast(key, last, chunks, k, out) ==
    IF k > Len(chunks) THEN Ret(out)
    ELSE LET decrypted == decrypt_ecb(key, None, chunks[k], FALSE) IN
         IF decrypted.tag = "Panic" THEN Panic
         ELSE DecryptCbcLoopStaleLast(key, last, chunks, k + 1,
                                      out \o xor(decrypted.val, last))

decrypt_cbc_padded_stale_last(key, iv, data) ==
    DecryptCbcLoopStaleLast(key, iv, Chunks(data, BlockSize), 1, <<>>)

\* The local `padded` of decrypt_cbc: the plaintext before the padding is
\* stripped.
decrypt_cbc_padded(key, iv, data) ==
    DecryptCbcLoop(key, iv, Chunks(data, BlockSize), 1, <<>>)

\* strip_pkcs7(&padded).unwrap(): Ret(plaintext), or Panic when a block fails
\* to decrypt, the padding is invalid or strip_pkcs7 itself aborts.
decrypt_cbc(key, iv, data) ==
    LET padded == decrypt_cbc_padded(key, iv, data) IN
    IF padded.tag = "Panic" THEN Panic
    ELSE LET stripped == strip_pkcs7(padded.val) IN
         IF stripped.tag = "Some" THEN Ret(stripped.val) ELSE Panic

----------------------------------------------------------------------------
(* Strings: a String is the sequence of its Unicode code points. *)

ReplacementChar == 65533    \* U+FFFD
Amp == 38                   \* '&'
Equals == 61                \* '='
Semicolon == 59             \* ';'

IsCont(b) == b \in 128..191

RECURSIVE Utf8Lossy(_, _)
\* String::from_utf8_lossy from byte i on: a run of ASCII bytes is copied,
\* a well-formed sequence decodes to its code point, every maximal
\* ill-formed prefix becomes U+FFFD.
Utf8Lossy(b, i) ==
    IF i > Len(b) THEN <<>>
    ELSE LET b0 == b[i]
             b1 == IF i + 1 <= Len(b) THEN b[i + 1] ELSE -1
             b2 == IF i + 2 <= Len(b) THEN b[i + 2] ELSE -1
             b3 == IF i + 3 <= Len(b) THEN b[i + 3] ELSE -1
             lo == IF b0 = 224 THEN 160 ELSE IF b0 = 240 THEN 144 ELSE 128
             hi == IF b0 = 237 THEN 159 ELSE IF b0 = 244 THEN 143 ELSE 191
             bad(k) == <<ReplacementChar>> \o Utf8Lossy(b, i + k)
             \* first byte after the ASCII run that starts at i
             stop == CHOOSE j \in (i + 1)..(Len(b) + 1) :
                        /\ j = Len(b) + 1 \/ b[j] >= 128
                        /\ \A k \in i..(j - 1) : b[k] < 128 IN
         IF b0 < 128 THEN SubSeq(b, i, stop - 1) \o Utf8Lossy(b, stop)
         ELSE IF b0 \in 194..223 THEN
              IF IsCont(b1)
              THEN <<(b0 - 192) * 64 + (b1 - 128)>> \o Utf8Lossy(b, i + 2)
              ELSE bad(1)
         ELSE IF b0 \in 224..239 THEN
              IF b1 \notin lo..hi THEN bad(1)
              ELSE IF ~IsCont(b2) THEN bad(2)
              ELSE <<(b0 - 224) * 4096 + (b1 - 128) * 64 + (b2 - 128)>>
                      \o Utf8Lossy(b, i + 3)
         ELSE IF b0 \in 240..244 THEN
              IF b1 \notin lo..hi THEN bad(1)
              ELSE IF ~IsCont(b2) THEN bad(2)
              ELSE IF ~IsCont(b3) THEN bad(3)
              ELSE <<(b0 - 240) * 262144 + (b1 - 128) * 4096
                        + (b2 - 128) * 64 + (b3 - 128)>>
                      \o Utf8Lossy(b, i + 4)
         ELSE bad(1)

\* bytes::to_string: String::from_utf8_lossy(&vector).into_owned()
to_string(bytes) == Utf8Lossy(bytes, 1)

\* UTF-8 encoding of one code point.
Utf8Char(c) ==
    IF c < 128 THEN <<c>>
    ELSE IF c < 2048 THEN <<192 + (c \div 64), 128 + (c % 64)>>
    ELSE IF c < 65536
         THEN <<224 + (c \div 4096), 128 + ((c \div 64) % 64), 128 + (c % 64)>>
    ELSE <<240 + (c \div 262144), 128 + ((c \div 4096) % 64),
           128 + ((c \div 64) % 64), 128 + (c % 64)>>

\* bytes::from_string: the UTF-8 bytes of the string.
from_string(string) == Concat([i \in 1..Len(string) |-> Utf8Char(string[i])])

\* str::replace(pat, ""): every occurrence of the character is removed.
RemoveChar(string, c) == SelectSeq(string, LAMBDA x : x # c)

\* str::split(char): the pieces between separators; always at least one.
Split(string, sep) ==
    LET at == {i \in 1..Len(string) : string[i] = sep}
        n == Cardinality(at)
        \* position of the k-th separator; 0 before the first piece and
        \* Len + 1 after the last
        pos(k) == IF k = 0 THEN 0
                  ELSE IF k = n + 1 THEN Len(string) + 1
                  ELSE CHOOSE i \in at : Cardinality({j \in at : j <= i}) = k IN
    [k \in 1..(n + 1) |-> SubSeq(string, pos(k - 1) + 1, pos(k) - 1)]

\* str::contains(&str)
Contains(string, sub) ==
    \E i \in 0..(Len(string) - Len(sub)) :
        SubSeq(string, i + 1, i + Len(sub)) = sub

StrEmail == <<101, 109, 97, 105, 108>>     \* "email"
StrUid == <<117, 105, 100>>                \* "uid"
StrTen == <<49, 48>>                       \* "10"
StrRole == <<114, 111, 108, 101>>          \* "role"
StrUser == <<117, 115, 101, 114>>          \* "user"
StrAdmin == <<97, 100, 109, 105, 110>>     \* "admin"

----------------------------------------------------------------------------
(* ProfileCookieOracle: utils/oracles.rs *)

RECURSIVE make_cookie(_)
\* key + "=" + value for every pair, interspersed with "&".
make_cookie(pairs) ==
    IF pairs = <<>> THEN <<>>
    ELSE LET first == Head(pairs)[1] \o <<Equals>> \o Head(pairs)[2] IN
         IF Len(pairs) = 1 THEN first
         ELSE first \o <<Amp>> \o make_cookie(Tail(pairs))

\* Mutant: only '&' is removed from the email, '=' is kept.
profile_for_keeps_equals(email) ==
    make_cookie(<< <<StrEmail, RemoveChar(email, Amp)>>,
                   <<StrUid, StrTen>>,
                   <<StrRole, StrUser>> >>)

profile_for(email) ==
    LET sanitized == RemoveChar(RemoveChar(email, Amp), Equals) IN
    make_cookie(<< <<StrEmail, sanitized>>,
                   <<StrUid, StrTen>>,
                   <<StrRole, StrUser>> >>)

RECURSIVE ParseTokens(_, _)
\* for token in string.split('&') { .. map.insert(key, value) }: a later
\* token overwrites an earlier one with the same key.
ParseTokens(tokens, map) ==
    IF tokens = <<>> THEN map
    ELSE LET pair == Split(Head(tokens), Equals)
             key == pair[1]
             value == IF Len(pair) >= 2 THEN pair[2] ELSE <<>> IN
         ParseTokens(Tail(tokens), (key :> value) @@ map)

RECURSIVE ParseTokensFirstWins(_, _)
\* Mutant: an earlier token is kept when a later one has the same key.
ParseTokensFirstWins(tokens, map) ==
    IF tokens = <<>> THEN map
    ELSE LET pair == Split(Head(tokens), Equals)
             key == pair[1]
             value == IF Len(pair) >= 2 THEN pair[2] ELSE <<>> IN
         ParseTokensFirstWins(Tail(tokens), map @@ (key :> value))

EmptyMap == [k \in {} |-> <<>>]

parse_cookie_first_wins(string) ==
    ParseTokensFirstWins(Split(string, Amp), EmptyMap)

\* The HashMap<String, String> as a function from keys to values.
parse_cookie(string) == ParseTokens(Split(string, Amp), EmptyMap)

encrypt_cookie(key, email) ==
    encrypt_ecb(key, None, from_string(profile_for(email)), TRUE)

\* Ret(map), or Panic when decrypt_ecb aborts.
decrypt_cookie(key, bytes) ==
    LET decrypted == decrypt_ecb(key, None, bytes, TRUE) IN
    IF decrypted.tag = "Panic" THEN Panic
    ELSE Ret(parse_cookie(to_string(decrypted.val)))

\* challenge_13: tampered = cookie[0..48] ++ cookie[16..32]; the slices
\* abort on a cookie shorter than 48 bytes.
challenge_13_tamper_short(cookie) ==
    IF Len(cookie) < 3 * BlockSize THEN Panic
    ELSE Ret(SubSeq(cookie, 1, 2 * BlockSize)
                \o SubSeq(cookie, BlockSize + 1, 2 * BlockSize))

challenge_13_tamper(cookie) ==
    IF Len(cookie) < 3 * BlockSize THEN Panic
    ELSE Ret(SubSeq(cookie, 1, 3 * BlockSize)
                \o SubSeq(cookie, BlockSize + 1, 2 * BlockSize))

----------------------------------------------------------------------------
(* CBCCookieOracle (used by challenge_16) and challenge_16's tampering *)

\* "comment1=cooking%20MCs;userdata="
CbcCookiePrefix ==
    <<99, 111, 109, 109, 101, 110, 116, 49, 61, 99, 111, 111, 107, 105,
      110, 103, 37, 50, 48, 77, 67, 115, 59, 117, 115, 101, 114, 100, 97,
      116, 97, 61>>

\* ";comment2=%20like%20a%20pound%20of%20bacon"
CbcCookieSuffix ==
    <<59, 99, 111, 109, 109, 101, 110, 116, 50, 61, 37, 50, 48, 108, 105,
      107, 101, 37, 50, 48, 97, 37, 50, 48, 112, 111, 117, 110, 100, 37,
      50, 48, 111, 102, 37, 50, 48, 98, 97, 99, 111, 110>>

\* ";admin=true;"
AdminTrue ==
    <<59, 97, 100, 109, 105, 110, 61, 116, 114, 117, 101, 59>>

\* userdata with ';' and '=' stripped
cbc_cookie_sanitize(userdata) ==
    RemoveChar(RemoveChar(userdata, Semicolon), Equals)

\* oracle.encrypt(userdata): the sanitized userdata inside the fixed template,
\* CBC-encrypted under the oracle's key and IV.
cbc_cookie_encrypt(key, iv, userdata) ==
    encrypt_cbc(key, iv,
                from_string(CbcCookiePrefix \o cbc_cookie_sanitize(userdata)
                                \o CbcCookieSuffix))

\* oracle.decrypt(&ciphertext): the CBC-decrypted plaintext as a String, no
\* integrity check.
cbc_cookie_decrypt(key, iv, ciphertext) ==
    LET decrypted == decrypt_cbc(key, iv, ciphertext) IN
    IF decrypted.tag = "Panic" THEN Panic
    ELSE Ret(to_string(decrypted.val))

\* Mutant: the flips are applied to the block that holds the target bytes
\* (bytes 48, 54, 59) instead of the block before it.
challenge_16_tamper_target_block(ciphertext) ==
    IF Len(ciphertext) < 60 THEN Panic
    ELSE Ret([ciphertext EXCEPT ![49] = Xor8(@, 1),
                                ![55] = Xor8(@, 1),
                                ![60] = Xor8(@, 1)])

\* ciphertext[32] ^= 1; ciphertext[38] ^= 1; ciphertext[43] ^= 1;
\* (indexing aborts on a ciphertext shorter than 44 bytes)
challenge_16_tamper(ciphertext) ==
    IF Len(ciphertext) < 44 THEN Panic
    ELSE Ret([ciphertext EXCEPT ![33] = Xor8(@, 1),
                                ![39] = Xor8(@, 1),
                                ![44] = Xor8(@, 1)])

----------------------------------------------------------------------------
(* UnknownStringOracle (utils/oracles.rs) and the byte-at-a-time attack     *)
(* (utils/attacks.rs)                                                       *)

\* UnknownStringOracle::unknown_string(): the base64 constant, decoded
\* ("Rollin' in my 5.0\nWith my rag-top down so my hair can blow\n...").
UnknownString ==
    <<82, 111, 108, 108, 105, 110, 39, 32, 105, 110, 32, 109, 121, 32, 53,
      46, 48, 10, 87, 105, 116, 104, 32, 109, 121, 32, 114, 97, 103, 45,
      116, 111, 112, 32, 100, 111, 119, 110, 32, 115, 111, 32, 109, 121,
      32, 104, 97, 105, 114, 32, 99, 97, 110, 32, 98, 108, 111, 119, 10,
      84, 104, 101, 32, 103, 105, 114, 108, 105, 101, 115, 32, 111, 110,
      32, 115, 116, 97, 110, 100, 98, 121, 32, 119, 97, 118, 105, 110, 103,
      32, 106, 117, 115, 116, 32, 116, 111, 32, 115, 97, 121, 32, 104, 105,
      10, 68, 105, 100, 32, 121, 111, 117, 32, 115, 116, 111, 112, 63, 32,
      78, 111, 44, 32, 73, 32, 106, 117, 115, 116, 32, 100, 114, 111, 118,
      101, 32, 98, 121, 10>>

\* Mutant: the oracle encrypts its input without appending the string.
unknown_string_encrypt_no_suffix(key, suffix, bytes) ==
    encrypt_ecb(key, None, bytes, TRUE)

\* oracle.encrypt(bytes) for an oracle holding `key` and appending `suffix`
unknown_string_encrypt(key, suffix, bytes) ==
    encrypt_ecb(key, None, bytes \o suffix, TRUE)

Zeros(n) == [k \in 1..n |-> 0]

\* test[0..block_size] == encrypted[0..block_size] for the candidate `byte`
ByteMatches(key, suffix, pad, encrypted, block_size, byte) ==
    SubSeq(unknown_string_encrypt(key, suffix, Append(pad, byte)).val,
           1, block_size)
        = SubSeq(encrypted, 1, block_size)

RECURSIVE FindByteFrom(_, _, _, _, _, _, _)
\* The candidates from..(to - 1) in ascending order; -1 when none matches.
FindByteFrom(key, suffix, pad, encrypted, block_size, from, to) ==
    IF from >= to THEN -1
    ELSE IF ByteMatches(key, suffix, pad, encrypted, block_size, from)
         THEN from
         ELSE FindByteFrom(key, suffix, pad, encrypted, block_size,
                           from + 1, to)

RECURSIVE FindByteGroup(_, _, _, _, _, _)
\* for byte in 0..255u8 { .. { decrypted.push(byte); break; } .. }: the first
\* candidate whose first ciphertext block matches (255 itself is outside the
\* range), -1 when none does.  The range is walked in groups of 16 to bound
\* the evaluation depth.
FindByteGroup(key, suffix, pad, encrypted, block_size, from) ==
    IF from >= U8Range - 1 THEN -1
    ELSE LET to == Min(from + 16, U8Range - 1)
             byte == FindByteFrom(key, suffix, pad, encrypted, block_size,
                                  from, to) IN
         IF byte # -1 THEN byte
         ELSE FindByteGroup(key, suffix, pad, encrypted, block_size, to)

FindByte(key, suffix, pad, encrypted, block_size) ==
    FindByteGroup(key, suffix, pad, encrypted, block_size, 0)

\* One iteration of `for i in 1..block_size`: the value of `decrypted` after
\* it.
RecoverStep(key, suffix, block_size, i, decrypted) ==
    LET pad == Zeros(block_size - i)
        encrypted == unknown_string_encrypt(key, suffix, pad).val
        byte == FindByte(key, suffix, pad \o decrypted, encrypted, block_size)
    IN IF byte = -1 THEN decrypted ELSE Append(decrypted, byte)

----------------------------------------------------------------------------
(* ECB detection: utils/attacks.rs *)

\* The HashMap `counts` after the loop: every distinct chunk with the number
\* of times it occurs.  slice.chunks(0) aborts.
max_repeated_blocks(bytes, block_size) ==
    IF block_size = 0 THEN Panic
    ELSE LET chunks == Chunks(bytes, block_size)
             keys == {chunks[k] : k \in 1..Len(chunks)}
             counts == [c \in keys |->
                          Cardinality({k \in 1..Len(chunks) : chunks[k] = c})]
             values == {counts[c] : c \in keys} IN
         \* counts.values().cloned().max().unwrap_or(0)
         Ret(IF values = {} THEN 0
             ELSE CHOOSE m \in values : \A v \in values : v <= m)

\* Mutant: a block has to occur three times to count as a repetition.
detect_ecb_more_than_two(bytes, block_size) ==
    LET max == max_repeated_blocks(bytes, block_size) IN
    IF max.tag = "Panic" THEN Panic ELSE Ret(max.val > 2)

detect_ecb(bytes, block_size) ==
    LET max == max_repeated_blocks(bytes, block_size) IN
    IF max.tag = "Panic" THEN Panic ELSE Ret(max.val > 1)

----------------------------------------------------------------------------
(* Block size detection: utils/attacks.rs *)

MaxBlockSizeProbe == 40   \* for i in 1..40

\* slice[0..n]; aborts when the slice is shorter than n.
Prefix(bytes, n) ==
    IF n > Len(bytes) THEN Panic ELSE Ret(SubSeq(bytes, 1, n))

\* Mutant: the range is 1..41, one more probe than the source makes.
block_size_step_one_more(old, encrypted, i) ==
    LET a == Prefix(encrypted, i)
        b == Prefix(old, i) IN
    IF a.tag = "Panic" \/ b.tag = "Panic" THEN Panic
    ELSE IF a = b THEN Some(i)
    ELSE IF i < MaxBlockSizeProbe THEN NoResult
    ELSE None

\* One iteration of `for i in 1..40` once `encrypted` has been recomputed:
\* Some(i) when the first i bytes did not change, NoResult to go on with
\* i + 1, None when the range is exhausted.
block_size_step(old, encrypted, i) ==
    LET a == Prefix(encrypted, i)
        b == Prefix(old, i) IN
    IF a.tag = "Panic" \/ b.tag = "Panic" THEN Panic
    ELSE IF a = b THEN Some(i)
    ELSE IF i + 1 < MaxBlockSizeProbe THEN NoResult
    ELSE None

----------------------------------------------------------------------------
(* encryption_oracle: utils/oracles.rs.  The values drawn from the RNG (key, *)
(* prefix, suffix, mode and IV) are parameters.                             *)

\* Mutant: CBC is used whatever the coin says.
encryption_oracle_always_cbc(data, key, prefix, suffix, cbc, iv) ==
    encrypt_cbc(key, iv, prefix \o data \o suffix)

encryption_oracle(data, key, prefix, suffix, cbc, iv) ==
    LET plaintext == prefix \o data \o suffix IN
    IF cbc THEN encrypt_cbc(key, iv, plaintext)
    ELSE encrypt_ecb(key, None, plaintext, TRUE)

----------------------------------------------------------------------------
(* Text scoring (utils/text.rs, utils/math.rs) and the single-byte XOR      *)
(* brute force (utils/attacks.rs).                                          *)
(*                                                                          *)
(* An f64 score is a record [dot, norm2, nan]: the cosine similarity        *)
(* dot(LETTER_FREQS, counts) / (|LETTER_FREQS| * |counts|) is kept as the   *)
(* pair dot (in units of 10^-5) and norm2 = |counts|^2, which orders scores *)
(* exactly; nan marks 0.0 / 0.0.  f64::MIN is the record with dot = -1.     *)

\* LETTER_FREQS, in units of 10^-5
LETTER_FREQS ==
    <<8167, 1492, 2782, 4253, 12702, 2228, 2015, 6094, 6966, 153, 772, 4025,
      2406, 6749, 7507, 1929, 95, 5987, 6327, 9056, 2758, 978, 2360, 150,
      1974, 74>>

Space == 32          \* ' '
KelvinSign == 8490   \* U+212A, whose lowercase is 'k'

\* Position of the character in the alphabet (from 1), 0 for None: the
\* character must lowercase to exactly one of 'a'..'z'.
alphabet_position(c) ==
    IF c \in 97..122 THEN c - 96
    ELSE IF c \in 65..90 THEN c - 64
    ELSE IF c = KelvinSign THEN 11
    ELSE 0

F64Min == [dot |-> -1, norm2 |-> 1, nan |-> FALSE]
F64Zero == [dot |-> 0, norm2 |-> 1, nan |-> FALSE]
F64NaN == [dot |-> 0, norm2 |-> 0, nan |-> TRUE]

RECURSIVE FracGt(_, _, _, _)
\* a / b > c / d for a, c >= 0 and b, d > 0, by comparing integer parts and
\* then the inverted remainders (no product is formed).
FracGt(a, b, c, d) ==
    LET q1 == a \div b
        q2 == c \div d
        r1 == a % b
        r2 == c % d IN
    IF q1 # q2 THEN q1 > q2
    ELSE IF r1 = 0 THEN FALSE
    ELSE IF r2 = 0 THEN TRUE
    ELSE FracGt(d, r2, b, r1)

\* x > y on f64: false when either side is NaN; non-negative cosines compare
\* like their squares dot^2 / norm2.
F64Gt(x, y) ==
    IF x.nan \/ y.nan THEN FALSE
    ELSE IF y.dot < 0 THEN x.dot >= 0
    ELSE IF x.dot < 0 THEN FALSE
    ELSE FracGt(x.dot * x.dot, x.norm2, y.dot * y.dot, y.norm2)

\* text::score_text
score_text(text) ==
    LET counts == [l \in 1..26 |->
                     Cardinality({i \in 1..Len(text) :
                                     /\ text[i] # Space
                                     /\ alphabet_position(text[i]) = l})]
        space == \E i \in 1..Len(text) : text[i] = Space
        letters == {l \in 1..26 : counts[l] > 0}
        Sum[S \in SUBSET letters] ==
            IF S = {} THEN [dot |-> 0, norm2 |-> 0]
            ELSE LET l == CHOOSE x \in S : TRUE
                     rest == Sum[S \ {l}] IN
                 [dot |-> rest.dot + LETTER_FREQS[l] * counts[l],
                  norm2 |-> rest.norm2 + counts[l] * counts[l]]
        total == Sum[letters] IN
    IF ~space THEN F64Zero
    ELSE IF total.norm2 = 0 THEN F64NaN     \* cosine_sim: 0.0 / 0.0
    ELSE [dot |-> total.dot, norm2 |-> total.norm2, nan |-> FALSE]

RECURSIVE Utf8Valid(_, _)
\* The bytes from i on are well-formed UTF-8.
Utf8Valid(b, i) ==
    IF i > Len(b) THEN TRUE
    ELSE LET b0 == b[i]
             b1 == IF i + 1 <= Len(b) THEN b[i + 1] ELSE -1
             b2 == IF i + 2 <= Len(b) THEN b[i + 2] ELSE -1
             b3 == IF i + 3 <= Len(b) THEN b[i + 3] ELSE -1
             lo == IF b0 = 224 THEN 160 ELSE IF b0 = 240 THEN 144 ELSE 128
             hi == IF b0 = 237 THEN 159 ELSE IF b0 = 244 THEN 143 ELSE 191 IN
         IF b0 < 128 THEN Utf8Valid(b, i + 1)
         ELSE IF b0 \in 194..223 THEN IsCont(b1) /\ Utf8Valid(b, i + 2)
         ELSE IF b0 \in 224..239
              THEN b1 \in lo..hi /\ IsCont(b2) /\ Utf8Valid(b, i + 3)
         ELSE IF b0 \in 240..244
              THEN b1 \in lo..hi /\ IsCont(b2) /\ IsCont(b3)
                      /\ Utf8Valid(b, i + 4)
         ELSE FALSE

\* String::from_utf8: Ok(string) for well-formed bytes, Err otherwise.
from_utf8(bytes) ==
    IF Utf8Valid(bytes, 1) THEN Ok(Utf8Lossy(bytes, 1)) ELSE Err("utf8")

\* bytes::xor(ciphertext, iter::repeat(&byte))
XorRepeat(ciphertext, byte) ==
    [i \in 1..Len(ciphertext) |-> Xor8(ciphertext[i], byte)]

\* The loop body for one candidate: the (best_score, result, key) after it.
BruteForceStep(ciphertext, byte, best) ==
    LET decoded == from_utf8(XorRepeat(ciphertext, byte)) IN
    IF decoded.tag # "Ok" THEN best
    ELSE LET score == score_text(decoded.val) IN
         IF F64Gt(score, best.best_score)
         THEN [best_score |-> score, result |-> decoded.val, key |-> byte]
         ELSE best

RECURSIVE BruteForceFrom(_, _, _, _)
\* The candidates from..(to - 1) in ascending order (the test on next.key
\* only makes the step's value be computed before the next step starts).
BruteForceFrom(ciphertext, from, to, best) ==
    IF from >= to THEN best
    ELSE LET next == BruteForceStep(ciphertext, from, best) IN
         IF next.key >= 0
         THEN BruteForceFrom(ciphertext, from + 1, to, next)
         ELSE next

RECURSIVE BruteForceGroups(_, _, _, _)
\* The candidates from..(last - 1), walked in groups of 16 to bound the
\* evaluation depth.
BruteForceGroups(ciphertext, from, last, best) ==
    IF from >= last THEN best
    ELSE LET to == Min(from + 16, last)
             next == BruteForceFrom(ciphertext, from, to, best) IN
         IF next.key >= 0
         THEN BruteForceGroups(ciphertext, to, last, next)
         ELSE next

BruteForceStart == [best_score |-> F64Min, result |-> <<>>, key |-> 0]

\* for byte in 0..255u8 { .. }: the candidates 0..254.
single_byte_brute_force(ciphertext) ==
    BruteForceGroups(ciphertext, 0, U8Range - 1, BruteForceStart)

----------------------------------------------------------------------------
(* Key size ranking: utils/attacks.rs, utils/bytes.rs *)

RECURSIVE CountOnes(_)
\* u8::count_ones
CountOnes(x) == IF x = 0 THEN 0 ELSE (x % 2) + CountOnes(x \div 2)

RECURSIVE SumSeq(_)
SumSeq(s) == IF s = <<>> THEN 0 ELSE Head(s) + SumSeq(Tail(s))

\* bytes::hamming_dist: the zip stops at the shorter operand.
hamming_dist(a, b) ==
    SumSeq([i \in 1..Min(Len(a), Len(b)) |-> CountOnes(Xor8(a[i], b[i]))])

NumChunks == 4   \* let num_chunks = 4

\* The f64 `avg` of one size, as the exact fraction num / den: the sum of the
\* pairs' distances over size * number of pairs; nan when there is no pair
\* (0.0 / 0.0).
KeysizeAvg(ciphertext, size) ==
    LET chunks == Chunks(ciphertext, size)
        taken == SubSeq(chunks, 1, Min(NumChunks, Len(chunks)))
        pairs == {p \in (1..Len(taken)) \X (1..Len(taken)) : p[1] < p[2]}
        Sum[S \in SUBSET pairs] ==
            IF S = {} THEN 0
            ELSE LET p == CHOOSE x \in S : TRUE IN
                 hamming_dist(taken[p[1]], taken[p[2]]) + Sum[S \ {p}] IN
    [num |-> Sum[pairs], den |-> size * Cardinality(pairs),
     nan |-> pairs = {}, size |-> size]

\* a.partial_cmp(&b) == Some(Less) for two averages that are numbers
AvgLess(a, b) == a.num * b.den < b.num * a.den

RECURSIVE SortByAvg(_)
\* sizes.sort_by(..): a stable sort, so sizes with equal averages keep the
\* order of the range.
SortByAvg(sizes) ==
    IF sizes = <<>> THEN <<>>
    ELSE LET last == sizes[Len(sizes)]
             front == SortByAvg(SubSeq(sizes, 1, Len(sizes) - 1))
             \* `last` goes after every element that is not greater than it
             keep == Cardinality({k \in 1..Len(front) :
                                     ~AvgLess(last, front[k])}) IN
         SubSeq(front, 1, keep) \o <<last>>
            \o SubSeq(front, keep + 1, Len(front))

\* Ret(sizes), or Panic: chunks(0) aborts, and partial_cmp(..).unwrap()
\* aborts when the sort compares a NaN average, which it does whenever there
\* are two or more sizes and one of them has no pair of chunks.
get_keysizes(ciphertext, range, limit) ==
    IF range.start < range.end /\ range.start = 0 THEN Panic
    ELSE LET n == IF range.start < range.end THEN range.end - range.start
                  ELSE 0
             sizes == [k \in 1..n |->
                         KeysizeAvg(ciphertext, range.start + k - 1)] IN
         IF n >= 2 /\ \E k \in 1..n : sizes[k].nan THEN Panic
         ELSE LET sorted == SortByAvg(sizes) IN
              Ret([k \in 1..Min(limit, n) |-> sorted[k].size])

----------------------------------------------------------------------------
(* Transposition: utils/bytes.rs *)

\* Mutant: a slice shorter than the first one contributes nothing.
transpose_full_slices(slices) ==
    LET n == IF slices = <<>> THEN 0 ELSE Len(slices[1]) IN
    [k \in 1..n |->
        LET reach == SelectSeq(slices, LAMBDA slice : Len(slice) >= n) IN
        [m \in 1..Len(reach) |-> reach[m][k]]]

\* n is the length of the first slice; the k-th output vector receives, in
\* input order, the k-th byte of every slice whose iterator still yields
\* one.
transpose(slices) ==
    LET n == IF slices = <<>> THEN 0 ELSE Len(slices[1]) IN
    [k \in 1..n |->
        LET reach == SelectSeq(slices, LAMBDA slice : Len(slice) >= k) IN
        [m \in 1..Len(reach) |-> reach[m][k]]]

\* bytes::transpose(ciphertext.chunks(size)); slice::chunks aborts on a
\* chunk size of 0.
transpose_chunks(ciphertext, size) ==
    IF size = 0 THEN Panic ELSE Ret(transpose(Chunks(ciphertext, size)))

----------------------------------------------------------------------------
(* Harnesses: each specification runs one component and leaves the others  *)
(* idle.                                                                    *)

NoFlip == [block |-> 0, bit |-> 0]

PadIdle ==
    /\ padPc = "idle"
    /\ padBytes = <<>>
    /\ padLength = 0
    /\ padResult = NoResult
    /\ stripResult = NoResult

CbcIdle ==
    /\ cbcPc = "idle"
    /\ cbcKey = <<>>
    /\ cbcIv = <<>>
    /\ cbcData = <<>>
    /\ cbcEncrypted = NoResult
    /\ cbcPadded = NoResult
    /\ cbcDecrypted = NoResult
    /\ cbcFlip = NoFlip
    /\ cbcTampered = <<>>
    /\ cbcTamperedPadded = NoResult
    /\ cbcTamperedDecrypted = NoResult

CookieIdle ==
    /\ ckPc = "idle"
    /\ ckKey = <<>>
    /\ ckEmail = <<>>
    /\ ckCookie = NoResult
    /\ ckTampered = NoResult
    /\ ckProfile = NoResult

CbcCookieIdle ==
    /\ coPc = "idle"
    /\ coKey = <<>>
    /\ coIv = <<>>
    /\ coUserdata = <<>>
    /\ coCiphertext = NoResult
    /\ coResult = NoResult

SuffixIdle ==
    /\ sufPc = "idle"
    /\ sufKey = <<>>
    /\ sufSuffix = <<>>
    /\ sufI = 0
    /\ sufDecrypted = <<>>
    /\ sufResult = NoResult

ParseIdle ==
    /\ psPc = "idle"
    /\ psString = <<>>
    /\ psMap = NoResult

DetectIdle ==
    /\ dePc = "idle"
    /\ deBytes = <<>>
    /\ deBlockSize = 0
    /\ deCount = NoResult
    /\ deDetected = NoResult

BlockSizeIdle ==
    /\ bsPc = "idle"
    /\ bsBlockSize = 0
    /\ bsKey = <<>>
    /\ bsSuffix = <<>>
    /\ bsI = 0
    /\ bsInput = <<>>
    /\ bsEncrypted = <<>>
    /\ bsResult = NoResult

OracleIdle ==
    /\ eoPc = "idle"
    /\ eoData = <<>>
    /\ eoKey = <<>>
    /\ eoPrefix = <<>>
    /\ eoSuffix = <<>>
    /\ eoCbc = FALSE
    /\ eoIv = <<>>
    /\ eoEncrypted = NoResult
    /\ eoDetected = NoResult

BruteIdle ==
    /\ sbPc = "idle"
    /\ sbCiphertext = <<>>
    /\ sbResult = NoResult

KeysizeIdle ==
    /\ ksPc = "idle"
    /\ ksCiphertext = <<>>
    /\ ksRange = [start |-> 0, end |-> 0]
    /\ ksLimit = 0
    /\ ksResult = NoResult

LifetimeIdle ==
    /\ ltPc = "idle"
    /\ ltKey = <<>>
    /\ ltCookieKey = <<>>
    /\ ltCalls = <<>>

TransposeIdle ==
    /\ trPc = "idle"
    /\ trCiphertext = <<>>
    /\ trSize = 0
    /\ trResult = NoResult

----------------------------------------------------------------------------
(* Padding harness *)

MaxPadLen == 3     \* longest enumerated input of the padding functions
MaxPadCount == 4   \* largest enumerated small pad count

PadAlphabet == {0, 1, 2, 5}

IceIceBaby == <<73, 67, 69, 32, 73, 67, 69, 32, 66, 65, 66, 89>>
YellowSubmarine ==
    <<89, 69, 76, 76, 79, 87, 32, 83, 85, 66, 77, 65, 82, 73, 78, 69>>

\* challenge_15's three inputs and challenge_9's input.
PadVectors ==
    { IceIceBaby \o <<4, 4, 4, 4>>,
      IceIceBaby \o <<5, 5, 5, 5>>,
      IceIceBaby \o <<1, 2, 3, 4>>,
      YellowSubmarine }

PadInputs == SeqsUpTo(PadAlphabet, MaxPadLen) \cup PadVectors

\* Target lengths around every boundary of pad_pkcs7's match.
PadLengths(bytes) ==
    { l \in (Len(bytes) - 1)..(Len(bytes) + MaxPadCount) : l >= 0 }
        \cup { Len(bytes) + d : d \in {U8Range - 1, U8Range, U8Range + 1} }

PadInit ==
    /\ padPc = "start"
    /\ padBytes \in PadInputs
    /\ padLength \in PadLengths(padBytes)
    /\ padResult = NoResult
    /\ stripResult = NoResult
    /\ CbcIdle
    /\ CookieIdle
    /\ CbcCookieIdle
    /\ SuffixIdle
    /\ ParseIdle
    /\ DetectIdle
    /\ BlockSizeIdle
    /\ OracleIdle
    /\ BruteIdle
    /\ KeysizeIdle
    /\ LifetimeIdle
    /\ TransposeIdle

PadFrame == UNCHANGED <<cbcVars, cookieVars, cbcCookieVars, suffixVars,
    parseVars, detectVars, blockSizeVars, oracleVars, bruteVars,
    keysizeVars, lifetimeVars, transposeVars>>

\* crypto::pad_pkcs7(input, length)
Pad ==
    /\ padPc = "start"
    /\ padResult' = pad_pkcs7(padBytes, padLength)
    /\ padPc' = "padded"
    /\ UNCHANGED <<padBytes, padLength, stripResult>>
    /\ PadFrame

\* crypto::strip_pkcs7 applied to what pad_pkcs7 returned
StripPadded ==
    /\ padPc = "padded"
    /\ padResult.tag = "Ok"
    /\ stripResult' = strip_pkcs7(padResult.val)
    /\ padPc' = "roundtrip"
    /\ UNCHANGED <<padBytes, padLength, padResult>>
    /\ PadFrame

\* crypto::strip_pkcs7 applied to a caller-supplied byte string
Strip ==
    /\ padPc = "start"
    /\ stripResult' = strip_pkcs7(padBytes)
    /\ padPc' = "stripped"
    /\ UNCHANGED <<padBytes, padLength, padResult>>
    /\ PadFrame

PadNext == Pad \/ StripPadded \/ Strip

SpecPad == PadInit /\ [][PadNext]_vars

----------------------------------------------------------------------------
(* CBC harness *)

MaxPlainBlocks == 2   \* enumerated plaintexts span up to this many blocks

KeyB == [i \in 1..KeySize |-> (i * 37 + 11) % U8Range]
IvAlphabet == [i \in 1..BlockSize |-> 96 + i]     \* b"abcdefghijklmnop"
IvZero == [i \in 1..BlockSize |-> 0]              \* [0u8; 16]

\* b"The quick brown fox jumps over the lazy dog."
QuickBrownFox ==
    <<84, 104, 101, 32, 113, 117, 105, 99, 107, 32, 98, 114, 111, 119, 110, 32,
      102, 111, 120, 32, 106, 117, 109, 112, 115, 32, 111, 118, 101, 114, 32,
      116, 104, 101, 32, 108, 97, 122, 121, 32, 100, 111, 103, 46>>

CbcKeys == {YellowSubmarine, KeyB}
CbcIvs == {IvAlphabet, IvZero}

\* Lengths on both sides of every block boundary.
PlainLengths ==
    { l \in 0..(MaxPlainBlocks * BlockSize + 1) :
        l % BlockSize \in {0, 1, BlockSize - 1} }

\* Plaintexts of every such length: all 0x01 (bytes that look like padding)
\* and a ramp of distinct bytes.
CbcPlaintexts ==
    { [i \in 1..l |-> 1] : l \in PlainLengths }
        \cup { [i \in 1..l |-> (65 + 7 * i) % U8Range] : l \in PlainLengths }
        \cup { QuickBrownFox }

\* Bit positions within a 128-bit block: first and last bit of the first,
\* a middle and the last byte.
FlipBits == {0, 7, 64, 127}

\* ciphertext[block * 16 + bit / 8] ^= 1 << (bit % 8)
FlipBitAt(c, block, bit) ==
    [c EXCEPT ![block * BlockSize + (bit \div 8) + 1] = Xor8(@, 2 ^ (bit % 8))]

CbcInit ==
    /\ cbcPc = "start"
    /\ cbcKey \in CbcKeys
    /\ cbcIv \in CbcIvs
    /\ cbcData \in CbcPlaintexts
    /\ cbcEncrypted = NoResult
    /\ cbcPadded = NoResult
    /\ cbcDecrypted = NoResult
    /\ cbcFlip = NoFlip
    /\ cbcTampered = <<>>
    /\ cbcTamperedPadded = NoResult
    /\ cbcTamperedDecrypted = NoResult
    /\ PadIdle
    /\ CookieIdle
    /\ CbcCookieIdle
    /\ SuffixIdle
    /\ ParseIdle
    /\ DetectIdle
    /\ BlockSizeIdle
    /\ OracleIdle
    /\ BruteIdle
    /\ KeysizeIdle
    /\ LifetimeIdle
    /\ TransposeIdle

CbcFrame == UNCHANGED <<padVars, cookieVars, cbcCookieVars, suffixVars,
    parseVars, detectVars, blockSizeVars, oracleVars, bruteVars,
    keysizeVars, lifetimeVars, transposeVars>>

\* crypto::encrypt_cbc(key, iv, input)
EncryptCbc ==
    /\ cbcPc = "start"
    /\ cbcEncrypted' = encrypt_cbc(cbcKey, cbcIv, cbcData)
    /\ cbcPc' = "encrypted"
    /\ UNCHANGED <<cbcKey, cbcIv, cbcData, cbcPadded, cbcDecrypted, cbcFlip,
                   cbcTampered, cbcTamperedPadded, cbcTamperedDecrypted>>
    /\ CbcFrame

\* crypto::decrypt_cbc(key, iv, &encrypted)
DecryptCbc ==
    /\ cbcPc = "encrypted"
    /\ cbcEncrypted.tag = "Ret"
    /\ cbcPadded' = decrypt_cbc_padded(cbcKey, cbcIv, cbcEncrypted.val)
    /\ cbcDecrypted' = decrypt_cbc(cbcKey, cbcIv, cbcEncrypted.val)
    /\ cbcPc' = "decrypted"
    /\ UNCHANGED <<cbcKey, cbcIv, cbcData, cbcEncrypted, cbcFlip, cbcTampered,
                   cbcTamperedPadded, cbcTamperedDecrypted>>
    /\ CbcFrame

\* The attacker flips one bit of one ciphertext block.
FlipBit ==
    /\ cbcPc = "decrypted"
    /\ \E block \in 0..(Len(cbcEncrypted.val) \div BlockSize - 1),
          bit \in FlipBits :
          /\ cbcFlip' = [block |-> block, bit |-> bit]
          /\ cbcTampered' = FlipBitAt(cbcEncrypted.val, block, bit)
    /\ cbcPc' = "tampered"
    /\ UNCHANGED <<cbcKey, cbcIv, cbcData, cbcEncrypted, cbcPadded,
                   cbcDecrypted, cbcTamperedPadded, cbcTamperedDecrypted>>
    /\ CbcFrame

\* crypto::decrypt_cbc(key, iv, &tampered)
DecryptTampered ==
    /\ cbcPc = "tampered"
    /\ cbcTamperedPadded' = decrypt_cbc_padded(cbcKey, cbcIv, cbcTampered)
    /\ cbcTamperedDecrypted' = decrypt_cbc(cbcKey, cbcIv, cbcTampered)
    /\ cbcPc' = "redecrypted"
    /\ UNCHANGED <<cbcKey, cbcIv, cbcData, cbcEncrypted, cbcPadded,
                   cbcDecrypted, cbcFlip, cbcTampered>>
    /\ CbcFrame

\* The attacker keeps only the first k blocks of the ciphertext (none of them
\* for k = 0) and hands the result to crypto::decrypt_cbc.
DecryptTruncated ==
    /\ cbcPc = "decrypted"
    /\ \E k \in 0..(Len(cbcEncrypted.val) \div BlockSize - 1) :
          LET truncated == SubSeq(cbcEncrypted.val, 1, k * BlockSize) IN
          /\ cbcTampered' = truncated
          /\ cbcTamperedPadded' = decrypt_cbc_padded(cbcKey, cbcIv, truncated)
          /\ cbcTamperedDecrypted' = decrypt_cbc(cbcKey, cbcIv, truncated)
    /\ cbcPc' = "truncated"
    /\ UNCHANGED <<cbcKey, cbcIv, cbcData, cbcEncrypted, cbcPadded,
                   cbcDecrypted, cbcFlip>>
    /\ CbcFrame

CbcNext ==
    EncryptCbc \/ DecryptCbc \/ FlipBit \/ DecryptTampered \/ DecryptTruncated

SpecCBC == CbcInit /\ [][CbcNext]_vars

----------------------------------------------------------------------------
(* Profile oracle harness *)

MaxEmailLen == 3   \* longest enumerated email

\* 'a', '&', '=' and the two-byte character U+00E9
EmailAlphabet == {97, Amp, Equals, 233}

\* "foo@bar.com&role=admin" (test_profile_cookie)
TestEmail ==
    <<102, 111, 111, 64, 98, 97, 114, 46, 99, 111, 109, Amp>>
        \o StrRole \o <<Equals>> \o StrAdmin

\* "foo@bar.comroleadmin"
TestEmailSanitized ==
    <<102, 111, 111, 64, 98, 97, 114, 46, 99, 111, 109>> \o StrRole \o StrAdmin

\* "..........admin" ++ eleven 0x0b ++ "..." (challenge_13)
Challenge13Email ==
    [i \in 1..10 |-> 46] \o StrAdmin \o [i \in 1..11 |-> 11]
        \o [i \in 1..3 |-> 46]

Emails ==
    SeqsUpTo(EmailAlphabet, MaxEmailLen) \cup {TestEmail, Challenge13Email}

CookieInit ==
    /\ ckPc = "start"
    /\ ckKey \in CbcKeys
    /\ ckEmail \in Emails
    /\ ckCookie = NoResult
    /\ ckTampered = NoResult
    /\ ckProfile = NoResult
    /\ PadIdle
    /\ CbcIdle
    /\ CbcCookieIdle
    /\ SuffixIdle
    /\ ParseIdle
    /\ DetectIdle
    /\ BlockSizeIdle
    /\ OracleIdle
    /\ BruteIdle
    /\ KeysizeIdle
    /\ LifetimeIdle
    /\ TransposeIdle

CookieFrame == UNCHANGED <<padVars, cbcVars, cbcCookieVars, suffixVars,
    parseVars, detectVars, blockSizeVars, oracleVars, bruteVars,
    keysizeVars, lifetimeVars, transposeVars>>

\* oracle.encrypt_cookie(email)
EncryptCookie ==
    /\ ckPc = "start"
    /\ ckCookie' = encrypt_cookie(ckKey, ckEmail)
    /\ ckPc' = "encrypted"
    /\ UNCHANGED <<ckKey, ckEmail, ckTampered, ckProfile>>
    /\ CookieFrame

\* oracle.decrypt_cookie(&cookie)
DecryptCookie ==
    /\ ckPc = "encrypted"
    /\ ckCookie.tag = "Ret"
    /\ ckProfile' = decrypt_cookie(ckKey, ckCookie.val)
    /\ ckPc' = "decrypted"
    /\ UNCHANGED <<ckKey, ckEmail, ckCookie, ckTampered>>
    /\ CookieFrame

\* challenge_13: the attacker splices whole ciphertext blocks.
CutAndPaste ==
    /\ ckPc = "encrypted"
    /\ ckCookie.tag = "Ret"
    /\ ckTampered' = challenge_13_tamper(ckCookie.val)
    /\ ckPc' = "forged"
    /\ UNCHANGED <<ckKey, ckEmail, ckCookie, ckProfile>>
    /\ CookieFrame

\* oracle.decrypt_cookie(&tampered)
DecryptForged ==
    /\ ckPc = "forged"
    /\ ckTampered.tag = "Ret"
    /\ ckProfile' = decrypt_cookie(ckKey, ckTampered.val)
    /\ ckPc' = "forged_decrypted"
    /\ UNCHANGED <<ckKey, ckEmail, ckCookie, ckTampered>>
    /\ CookieFrame

CookieNext == EncryptCookie \/ DecryptCookie \/ CutAndPaste \/ DecryptForged

SpecCookie == CookieInit /\ [][CookieNext]_vars

----------------------------------------------------------------------------
(* CBC cookie oracle harness *)

MaxUserdataLen == 4   \* longest enumerated filler userdata

\* "................:admin<true:...." (challenge_16)
Challenge16Userdata ==
    <<46, 46, 46, 46, 46, 46, 46, 46, 46, 46, 46, 46, 46, 46, 46, 46, 58,
      97, 100, 109, 105, 110, 60, 116, 114, 117, 101, 58, 46, 46, 46, 46>>

Userdatas ==
    {Challenge16Userdata, AdminTrue}
        \cup { [i \in 1..l |-> 65] : l \in 0..MaxUserdataLen }

CbcCookieInit ==
    /\ coPc = "start"
    /\ coKey \in CbcKeys
    /\ coIv \in CbcIvs
    /\ coUserdata \in Userdatas
    /\ coCiphertext = NoResult
    /\ coResult = NoResult
    /\ PadIdle
    /\ CbcIdle
    /\ CookieIdle
    /\ SuffixIdle
    /\ ParseIdle
    /\ DetectIdle
    /\ BlockSizeIdle
    /\ OracleIdle
    /\ BruteIdle
    /\ KeysizeIdle
    /\ LifetimeIdle
    /\ TransposeIdle

CbcCookieFrame == UNCHANGED <<padVars, cbcVars, cookieVars, suffixVars,
    parseVars, detectVars, blockSizeVars, oracleVars, bruteVars,
    keysizeVars, lifetimeVars, transposeVars>>

\* let mut ciphertext = oracle.encrypt(userdata);
OracleEncrypt ==
    /\ coPc = "start"
    /\ coCiphertext' = cbc_cookie_encrypt(coKey, coIv, coUserdata)
    /\ coPc' = "encrypted"
    /\ UNCHANGED <<coKey, coIv, coUserdata, coResult>>
    /\ CbcCookieFrame

\* ciphertext[32] ^= 1; ciphertext[38] ^= 1; ciphertext[43] ^= 1;
Tamper ==
    /\ coPc = "encrypted"
    /\ coCiphertext.tag = "Ret"
    /\ coCiphertext' = challenge_16_tamper(coCiphertext.val)
    /\ coPc' = "tampered"
    /\ UNCHANGED <<coKey, coIv, coUserdata, coResult>>
    /\ CbcCookieFrame

\* oracle.decrypt(&ciphertext), with or without the tampering
OracleDecrypt ==
    /\ coPc \in {"encrypted", "tampered"}
    /\ coCiphertext.tag = "Ret"
    /\ coResult' = cbc_cookie_decrypt(coKey, coIv, coCiphertext.val)
    /\ coPc' = IF coPc = "tampered" THEN "tampered_decrypted" ELSE "decrypted"
    /\ UNCHANGED <<coKey, coIv, coUserdata, coCiphertext>>
    /\ CbcCookieFrame

CbcCookieNext == OracleEncrypt \/ Tamper \/ OracleDecrypt

SpecCbcCookie == CbcCookieInit /\ [][CbcCookieNext]_vars

----------------------------------------------------------------------------
(* Suffix recovery harness: decrypt_ecb_suffix(&mut encrypt, block_size)   *)
(* against an UnknownStringOracle, one loop iteration per step.            *)

MaxSuffixLen == 17   \* longest enumerated short suffix

\* Lengths next to the boundaries of the attack: almost empty, and around
\* one block.
SuffixLengths ==
    { l \in 0..MaxSuffixLen : l <= 2 \/ l >= BlockSize - 2 }

\* A suffix of each such length, one holding the byte 0xFF, and the oracle's
\* own unknown string.
Suffixes ==
    { [k \in 1..l |-> 64 + k] : l \in SuffixLengths }
        \cup { <<72, 105, U8Range - 1, 33>>, UnknownString }

SuffixInit ==
    /\ sufPc = "loop"
    /\ sufKey \in CbcKeys
    /\ sufSuffix \in Suffixes
    /\ sufI = 1
    /\ sufDecrypted = <<>>
    /\ sufResult = NoResult
    /\ PadIdle
    /\ CbcIdle
    /\ CookieIdle
    /\ CbcCookieIdle
    /\ ParseIdle
    /\ DetectIdle
    /\ BlockSizeIdle
    /\ OracleIdle
    /\ BruteIdle
    /\ KeysizeIdle
    /\ LifetimeIdle
    /\ TransposeIdle

SuffixFrame == UNCHANGED <<padVars, cbcVars, cookieVars, cbcCookieVars,
    parseVars, detectVars, blockSizeVars, oracleVars, bruteVars,
    keysizeVars, lifetimeVars, transposeVars>>

\* One iteration of the loop over i in 1..block_size.
RecoverByte ==
    /\ sufPc = "loop"
    /\ sufI < BlockSize
    /\ sufDecrypted' =
          RecoverStep(sufKey, sufSuffix, BlockSize, sufI, sufDecrypted)
    /\ sufI' = sufI + 1
    /\ UNCHANGED <<sufPc, sufKey, sufSuffix, sufResult>>
    /\ SuffixFrame

\* bytes::to_string(&decrypted)
ReturnSuffix ==
    /\ sufPc = "loop"
    /\ sufI >= BlockSize
    /\ sufResult' = Ret(to_string(sufDecrypted))
    /\ sufPc' = "done"
    /\ UNCHANGED <<sufKey, sufSuffix, sufI, sufDecrypted>>
    /\ SuffixFrame

SuffixNext == RecoverByte \/ ReturnSuffix

SpecSuffix == SuffixInit /\ [][SuffixNext]_vars

----------------------------------------------------------------------------
(* parse_cookie harness *)

MaxCookieLen == 5   \* longest enumerated cookie string

CookieAlphabet == {97, 98, Equals, Amp}      \* 'a', 'b', '=', '&'

\* Every short string over the alphabet, and the serialization profile_for
\* produces for test_profile_cookie's email.
CookieStrings ==
    SeqsUpTo(CookieAlphabet, MaxCookieLen) \cup {profile_for(TestEmail)}

ParseInit ==
    /\ psPc = "start"
    /\ psString \in CookieStrings
    /\ psMap = NoResult
    /\ PadIdle
    /\ CbcIdle
    /\ CookieIdle
    /\ CbcCookieIdle
    /\ SuffixIdle
    /\ DetectIdle
    /\ BlockSizeIdle
    /\ OracleIdle
    /\ BruteIdle
    /\ KeysizeIdle
    /\ LifetimeIdle
    /\ TransposeIdle

ParseFrame == UNCHANGED <<padVars, cbcVars, cookieVars, cbcCookieVars,
    suffixVars, detectVars, blockSizeVars, oracleVars, bruteVars,
    keysizeVars, lifetimeVars, transposeVars>>

\* ProfileCookieOracle::parse_cookie(&profile)
ParseCookie ==
    /\ psPc = "start"
    /\ psMap' = Ret(parse_cookie(psString))
    /\ psPc' = "parsed"
    /\ UNCHANGED psString
    /\ ParseFrame

ParseNext == ParseCookie

SpecParse == ParseInit /\ [][ParseNext]_vars

----------------------------------------------------------------------------
(* detect_ecb harness *)

MaxDetectLen == 6         \* longest enumerated byte string
MaxDetectBlockSize == 3   \* largest block size tried on those strings

\* 64 identical plaintext blocks.
RepeatedBlocks == [i \in 1..(64 * BlockSize) |-> 65]

\* Ciphertexts: ECB of 64 identical blocks, ECB and CBC of a plaintext whose
\* blocks all differ, CBC of the 64 identical blocks.
DetectCiphertexts ==
    { encrypt_ecb(YellowSubmarine, None, RepeatedBlocks, TRUE).val,
      encrypt_ecb(YellowSubmarine, None, QuickBrownFox, TRUE).val,
      encrypt_cbc(YellowSubmarine, IvZero, QuickBrownFox).val,
      encrypt_cbc(YellowSubmarine, IvZero, RepeatedBlocks).val }

DetectInputs ==
    (SeqsUpTo({0, 1}, MaxDetectLen) \X (0..MaxDetectBlockSize))
        \cup (DetectCiphertexts \X {BlockSize})

DetectInit ==
    /\ dePc = "start"
    /\ \E input \in DetectInputs :
          /\ deBytes = input[1]
          /\ deBlockSize = input[2]
    /\ deCount = NoResult
    /\ deDetected = NoResult
    /\ PadIdle
    /\ CbcIdle
    /\ CookieIdle
    /\ CbcCookieIdle
    /\ SuffixIdle
    /\ ParseIdle
    /\ BlockSizeIdle
    /\ OracleIdle
    /\ BruteIdle
    /\ KeysizeIdle
    /\ LifetimeIdle
    /\ TransposeIdle

DetectFrame == UNCHANGED <<padVars, cbcVars, cookieVars, cbcCookieVars,
    suffixVars, parseVars, blockSizeVars, oracleVars, bruteVars,
    keysizeVars, lifetimeVars, transposeVars>>

\* attacks::detect_ecb(&bytes, block_size)
DetectEcb ==
    /\ dePc = "start"
    /\ deCount' = max_repeated_blocks(deBytes, deBlockSize)
    /\ deDetected' = detect_ecb(deBytes, deBlockSize)
    /\ dePc' = "done"
    /\ UNCHANGED <<deBytes, deBlockSize>>
    /\ DetectFrame

DetectNext == DetectEcb

SpecDetect == DetectInit /\ [][DetectNext]_vars

----------------------------------------------------------------------------
(* Block size detection harness: detect_block_size(&mut encrypt) against an *)
(* oracle that ECB-encrypts its input followed by a fixed suffix, one loop  *)
(* iteration per step.  The cipher behind the oracle is AES (the            *)
(* UnknownStringOracle of challenge 12) or a cipher of another block width. *)

MaxZeroSuffixLen == 17   \* longest enumerated all-zero suffix
NarrowBlockSize == 8     \* block width of the narrow cipher enumerated

\* The suffixes of the recovery harness, and suffixes that are runs of the
\* byte the attack feeds in.
BlockSizeSuffixes ==
    Suffixes \cup { Zeros(l) : l \in 1..MaxZeroSuffixLen }

\* The block widths of the ciphers enumerated: a narrow one, AES, the widest
\* the loop can report and the first it cannot.
OracleBlockSizes ==
    {NarrowBlockSize, BlockSize, MaxBlockSizeProbe - 1, MaxBlockSizeProbe}

\* A key of block_size bytes drawn from a 16-byte one.
WideKey(key, block_size) ==
    [k \in 1..block_size |-> key[((k - 1) % Len(key)) + 1]]

\* PKCS#7 up to a multiple of block_size.
PadTo(data, block_size) ==
    LET pad == block_size - (Len(data) % block_size) IN
    data \o [k \in 1..pad |-> pad]

\* The closure `encrypt` handed to detect_block_size: ECB over
\* bytes ++ suffix; for 16-byte blocks it is UnknownStringOracle::encrypt.
oracle_encrypt(block_size, key, suffix, bytes) ==
    IF block_size = BlockSize
    THEN unknown_string_encrypt(key, suffix, bytes).val
    ELSE LET blocks == Chunks(PadTo(bytes \o suffix, block_size), block_size)
             wide == WideKey(key, block_size) IN
         Concat([k \in 1..Len(blocks) |-> EncryptBlock(wide, blocks[k])])

BlockSizeInit ==
    /\ bsPc = "loop"
    /\ bsBlockSize \in OracleBlockSizes
    /\ bsKey \in CbcKeys
    /\ bsSuffix \in BlockSizeSuffixes
    /\ bsI = 1
    /\ bsInput = <<0>>
    /\ bsEncrypted = oracle_encrypt(bsBlockSize, bsKey, bsSuffix, <<0>>)
    /\ bsResult = NoResult
    /\ PadIdle
    /\ CbcIdle
    /\ CookieIdle
    /\ CbcCookieIdle
    /\ SuffixIdle
    /\ ParseIdle
    /\ DetectIdle
    /\ OracleIdle
    /\ BruteIdle
    /\ KeysizeIdle
    /\ LifetimeIdle
    /\ TransposeIdle

BlockSizeFrame == UNCHANGED <<padVars, cbcVars, cookieVars, cbcCookieVars,
    suffixVars, parseVars, detectVars, oracleVars, bruteVars, keysizeVars,
    lifetimeVars, transposeVars>>

\* for i in 1..40 { let old = encrypted; input.push(0);
\*                  encrypted = encrypt(&input); if .. { return Some(i); } }
\* and the `None` after the loop
BlockSizeStep ==
    /\ bsPc = "loop"
    /\ LET input == Append(bsInput, 0)
           encrypted == oracle_encrypt(bsBlockSize, bsKey, bsSuffix, input)
           step == block_size_step(bsEncrypted, encrypted, bsI) IN
       /\ bsInput' = input
       /\ bsEncrypted' = encrypted
       /\ IF step = NoResult
          THEN /\ bsI' = bsI + 1
               /\ UNCHANGED <<bsPc, bsResult>>
          ELSE /\ bsResult' = step
               /\ bsPc' = "done"
               /\ UNCHANGED bsI
    /\ UNCHANGED <<bsBlockSize, bsKey, bsSuffix>>
    /\ BlockSizeFrame

BlockSizeNext == BlockSizeStep

SpecBlockSize == BlockSizeInit /\ [][BlockSizeNext]_vars

\* input.push(0): what every iteration, and no other step, does to `input`.
PushZero == bsPc = "loop" /\ bsInput' = Append(bsInput, 0)

\* The loop is straight-line code in one thread: an iteration that can run
\* does run.
SpecBlockSizeFair == SpecBlockSize /\ WF_bsInput(PushZero)

----------------------------------------------------------------------------
(* Mode detection harness: challenge_11 *)

MinAffixLen == 5   \* rng.gen_range(5usize, 10)
MaxAffixLen == 9

\* let data = [0u8; 64]
Challenge11Data == Zeros(64)

\* Random prefixes and suffixes of every length the oracle draws: a ramp of
\* distinct bytes and a run of the data byte.
Affixes ==
    { [k \in 1..l |-> 200 + k] : l \in MinAffixLen..MaxAffixLen }
        \cup { Zeros(l) : l \in MinAffixLen..MaxAffixLen }

\* A key under which the block permutation has a known fixed point (the key
\* itself): EncryptBlock(FixedPointKey, FixedPointKey) = FixedPointKey.
FixedPointKey == EncryptBlock(Zeros(KeySize), Zeros(BlockSize))

OracleKeys == CbcKeys \cup {FixedPointKey}

\* Random IVs; among them the one that makes the first block's cipher input
\* equal to the key.
OracleIvs(key, prefix) ==
    CbcIvs \cup { xor(prefix \o Zeros(BlockSize - Len(prefix)), key) }

OracleInit ==
    /\ eoPc = "start"
    /\ eoData = Challenge11Data
    /\ eoKey = <<>>
    /\ eoPrefix = <<>>
    /\ eoSuffix = <<>>
    /\ eoCbc = FALSE
    /\ eoIv = <<>>
    /\ eoEncrypted = NoResult
    /\ eoDetected = NoResult
    /\ PadIdle
    /\ CbcIdle
    /\ CookieIdle
    /\ CbcCookieIdle
    /\ SuffixIdle
    /\ ParseIdle
    /\ DetectIdle
    /\ BlockSizeIdle
    /\ BruteIdle
    /\ KeysizeIdle
    /\ LifetimeIdle
    /\ TransposeIdle

OracleFrame == UNCHANGED <<padVars, cbcVars, cookieVars, cbcCookieVars,
    suffixVars, parseVars, detectVars, blockSizeVars, bruteVars,
    keysizeVars, lifetimeVars, transposeVars>>

\* let (encrypted, cbc) = oracles::encryption_oracle(&data)
EncryptionOracle ==
    /\ eoPc = "start"
    /\ \E key \in OracleKeys, prefix \in Affixes, suffix \in Affixes,
          cbc \in BOOLEAN :
          \E iv \in IF cbc THEN OracleIvs(key, prefix) ELSE {<<>>} :
              /\ eoKey' = key
              /\ eoPrefix' = prefix
              /\ eoSuffix' = suffix
              /\ eoCbc' = cbc
              /\ eoIv' = iv
              /\ eoEncrypted' =
                    encryption_oracle(eoData, key, prefix, suffix, cbc, iv)
    /\ eoPc' = "encrypted"
    /\ UNCHANGED <<eoData, eoDetected>>
    /\ OracleFrame

\* attacks::detect_ecb(&encrypted, 16)
DetectMode ==
    /\ eoPc = "encrypted"
    /\ eoEncrypted.tag = "Ret"
    /\ eoDetected' = detect_ecb(eoEncrypted.val, BlockSize)
    /\ eoPc' = "detected"
    /\ UNCHANGED <<eoData, eoKey, eoPrefix, eoSuffix, eoCbc, eoIv, eoEncrypted>>
    /\ OracleFrame

OracleNext == EncryptionOracle \/ DetectMode

SpecOracle == OracleInit /\ [][OracleNext]_vars

----------------------------------------------------------------------------
(* single_byte_brute_force harness *)

MaxCipherLen == 3   \* longest enumerated ciphertext

\* Plaintexts over 'e', 't', 'z' and ' ', XORed with a key byte from both ends
\* and the middle of the range.
BrutePlainAlphabet == {101, 116, 122, Space}
BruteKeys == {0, 88, U8Range - 2, U8Range - 1}

BruteCiphertexts ==
    { XorRepeat(p, k) :
        p \in SeqsUpTo(BrutePlainAlphabet, MaxCipherLen), k \in BruteKeys }

BruteInit ==
    /\ sbPc = "start"
    /\ sbCiphertext \in BruteCiphertexts
    /\ sbResult = NoResult
    /\ PadIdle
    /\ CbcIdle
    /\ CookieIdle
    /\ CbcCookieIdle
    /\ SuffixIdle
    /\ ParseIdle
    /\ DetectIdle
    /\ BlockSizeIdle
    /\ OracleIdle
    /\ KeysizeIdle
    /\ LifetimeIdle
    /\ TransposeIdle

BruteFrame == UNCHANGED <<padVars, cbcVars, cookieVars, cbcCookieVars,
    suffixVars, parseVars, detectVars, blockSizeVars, oracleVars,
    keysizeVars, lifetimeVars, transposeVars>>

\* attacks::single_byte_brute_force(&ciphertext)
BruteForce ==
    /\ sbPc = "start"
    /\ sbResult' = Ret(single_byte_brute_force(sbCiphertext))
    /\ sbPc' = "done"
    /\ UNCHANGED sbCiphertext
    /\ BruteFrame

BruteNext == BruteForce

SpecBrute == BruteInit /\ [][BruteNext]_vars

----------------------------------------------------------------------------
(* get_keysizes harness *)

MaxKeyCipherLen == 4   \* longest enumerated ciphertext
MaxKeysize == 4        \* largest end of an enumerated range
MaxLimit == 3          \* largest enumerated limit

KeysizeAlphabet == {0, 1, U8Range - 1}

KeysizeRanges ==
    { [start |-> s, end |-> e] : s \in 0..MaxKeysize, e \in 0..MaxKeysize }

KeysizeInit ==
    /\ ksPc = "start"
    /\ ksCiphertext \in SeqsUpTo(KeysizeAlphabet, MaxKeyCipherLen)
    /\ ksRange \in KeysizeRanges
    /\ ksLimit \in 0..MaxLimit
    /\ ksResult = NoResult
    /\ PadIdle
    /\ CbcIdle
    /\ CookieIdle
    /\ CbcCookieIdle
    /\ SuffixIdle
    /\ ParseIdle
    /\ DetectIdle
    /\ BlockSizeIdle
    /\ OracleIdle
    /\ BruteIdle
    /\ LifetimeIdle
    /\ TransposeIdle

KeysizeFrame == UNCHANGED <<padVars, cbcVars, cookieVars, cbcCookieVars,
    suffixVars, parseVars, detectVars, blockSizeVars, oracleVars, bruteVars,
    lifetimeVars, transposeVars>>

\* attacks::get_keysizes(&ciphertext, range, limit)
GetKeysizes ==
    /\ ksPc = "start"
    /\ ksResult' = get_keysizes(ksCiphertext, ksRange, ksLimit)
    /\ ksPc' = "done"
    /\ UNCHANGED <<ksCiphertext, ksRange, ksLimit>>
    /\ KeysizeFrame

KeysizeNext == GetKeysizes

SpecKeysize == KeysizeInit /\ [][KeysizeNext]_vars

----------------------------------------------------------------------------
(* Oracle lifetime harness: one UnknownStringOracle and one                 *)
(* ProfileCookieOracle, called any number of times in any order.            *)

MaxCalls == 3   \* calls made on the two oracles

LifetimeInputs == {<<>>, <<0>>, Zeros(BlockSize), <<65, 66>>}
LifetimeEmails == {<<97>>, TestEmail}

Call(op, input, output) == [op |-> op, input |-> input, output |-> output]

LifetimeInit ==
    /\ ltPc = "ready"
    /\ ltKey \in CbcKeys
    /\ ltCookieKey \in CbcKeys
    /\ ltCalls = <<>>
    /\ PadIdle
    /\ CbcIdle
    /\ CookieIdle
    /\ CbcCookieIdle
    /\ SuffixIdle
    /\ ParseIdle
    /\ DetectIdle
    /\ BlockSizeIdle
    /\ OracleIdle
    /\ BruteIdle
    /\ KeysizeIdle
    /\ TransposeIdle

LifetimeFrame == UNCHANGED <<padVars, cbcVars, cookieVars, cbcCookieVars,
    suffixVars, parseVars, detectVars, blockSizeVars, oracleVars, bruteVars,
    keysizeVars, transposeVars>>

\* UnknownStringOracle::encrypt(&self, bytes)
LifetimeEncrypt ==
    /\ ltPc = "ready"
    /\ Len(ltCalls) < MaxCalls
    /\ \E bytes \in LifetimeInputs :
          ltCalls' = Append(ltCalls,
              Call("encrypt", bytes,
                   unknown_string_encrypt(ltKey, UnknownString, bytes)))
    /\ UNCHANGED <<ltPc, ltKey, ltCookieKey>>
    /\ LifetimeFrame

\* ProfileCookieOracle::encrypt_cookie(&self, email)
LifetimeEncryptCookie ==
    /\ ltPc = "ready"
    /\ Len(ltCalls) < MaxCalls
    /\ \E email \in LifetimeEmails :
          ltCalls' = Append(ltCalls,
              Call("encrypt_cookie", email, encrypt_cookie(ltCookieKey, email)))
    /\ UNCHANGED <<ltPc, ltKey, ltCookieKey>>
    /\ LifetimeFrame

\* ProfileCookieOracle::decrypt_cookie(&self, bytes) on a cookie the oracle
\* returned earlier
LifetimeDecryptCookie ==
    /\ ltPc = "ready"
    /\ Len(ltCalls) < MaxCalls
    /\ \E k \in 1..Len(ltCalls) :
          /\ ltCalls[k].op = "encrypt_cookie"
          /\ ltCalls' = Append(ltCalls,
                Call("decrypt_cookie", ltCalls[k].output.val,
                     decrypt_cookie(ltCookieKey, ltCalls[k].output.val)))
    /\ UNCHANGED <<ltPc, ltKey, ltCookieKey>>
    /\ LifetimeFrame

LifetimeNext ==
    LifetimeEncrypt \/ LifetimeEncryptCookie \/ LifetimeDecryptCookie

SpecLifetime == LifetimeInit /\ [][LifetimeNext]_vars

----------------------------------------------------------------------------
(* Transposition harness: bytes::transpose(ciphertext.chunks(size)) as      *)
(* challenge_6 calls it, for every enumerated ciphertext and size.          *)

MaxTransposeLen == 5     \* longest enumerated two-letter ciphertext
MaxRampLen == 9          \* longest enumerated ciphertext of distinct bytes
MaxTransposeSize == 6    \* largest enumerated chunk size

TransposeAlphabet == {65, 66}

\* Ciphertexts over two letters, and ciphertexts whose bytes are all
\* different.
TransposeCiphertexts ==
    UNION { [1..l -> TransposeAlphabet] : l \in 0..MaxTransposeLen }
        \cup { [k \in 1..l |-> k] : l \in 1..MaxRampLen }

TransposeInit ==
    /\ trPc = "start"
    /\ trCiphertext \in TransposeCiphertexts
    /\ trSize \in 0..MaxTransposeSize
    /\ trResult = NoResult
    /\ PadIdle
    /\ CbcIdle
    /\ CookieIdle
    /\ CbcCookieIdle
    /\ SuffixIdle
    /\ ParseIdle
    /\ DetectIdle
    /\ BlockSizeIdle
    /\ OracleIdle
    /\ BruteIdle
    /\ KeysizeIdle
    /\ LifetimeIdle

TransposeFrame == UNCHANGED <<padVars, cbcVars, cookieVars, cbcCookieVars,
    suffixVars, parseVars, detectVars, blockSizeVars, oracleVars, bruteVars,
    keysizeVars, lifetimeVars>>

\* let transposed = bytes::transpose(ciphertext.chunks(*size));
Transpose ==
    /\ trPc = "start"
    /\ trResult' = transpose_chunks(trCiphertext, trSize)
    /\ trPc' = "done"
    /\ UNCHANGED <<trCiphertext, trSize>>
    /\ TransposeFrame

TransposeNext == Transpose

SpecTranspose == TransposeInit /\ [][TransposeNext]_vars

----------------------------------------------------------------------------
(* Claims about padding (checked under SpecPad) *)

LastByte(bytes) == bytes[Len(bytes)]

\* C1 as stated: for every data and every targetLength in
\* [len(data), len(data)+255], stripping the padded bytes gives Some(data).
C1_RoundTripFromLen ==
    padPc = "roundtrip" => stripResult = Some(padBytes)

\* C1 as amended: for every data and every targetLength in
\* [len(data)+1, len(data)+255] (at least one pad byte is appended),
\* strip_pkcs7(pad_pkcs7(data, targetLength)) equals Some(data).
C1_PadRoundTrip ==
    (padPc = "roundtrip" /\ padLength > Len(padBytes))
        => stripResult = Some(padBytes)

C1_Witness ==
    /\ padPc = "roundtrip"
    /\ padBytes # <<>>
    /\ padLength = Len(padBytes) + U8Range - 1
    /\ stripResult = Some(padBytes)

\* C2: strip_pkcs7 never aborts: on every byte string it returns Some(bytes)
\* or None.
C2_StripNeverAborts ==
    padPc \in {"stripped", "roundtrip"} => stripResult.tag \in {"Some", "None"}

\* C3: with n the last byte, strip_pkcs7(data) is Some(d) only if
\* len(data) >= n and each of the last n bytes equals n, and then d is data
\* without those n bytes; it is None for empty input and whenever one of the
\* last n bytes is not n; the three challenge 15 inputs give Some("ICE ICE
\* BABY"), None and None.
C3_StripSuccessCondition ==
    padPc = "stripped" =>
        LET n == Len(padBytes) IN
        /\ stripResult.tag = "Some" =>
              /\ n > 0
              /\ n >= LastByte(padBytes)
              /\ \A i \in 1..LastByte(padBytes) :
                    padBytes[n + 1 - i] = LastByte(padBytes)
              /\ stripResult.val = SubSeq(padBytes, 1, n - LastByte(padBytes))
        /\ n = 0 => stripResult = None
        /\ (n > 0 /\ \E i \in 1..Min(LastByte(padBytes), n) :
                        padBytes[n + 1 - i] # LastByte(padBytes))
              => stripResult = None
        /\ padBytes = IceIceBaby \o <<4, 4, 4, 4>>
              => stripResult = Some(IceIceBaby)
        /\ padBytes = IceIceBaby \o <<5, 5, 5, 5>> => stripResult = None
        /\ padBytes = IceIceBaby \o <<1, 2, 3, 4>> => stripResult = None

C3_Witness ==
    /\ padPc = "stripped"
    /\ padBytes = IceIceBaby \o <<4, 4, 4, 4>>
    /\ stripResult = Some(IceIceBaby)

\* C4: pad_pkcs7(data, targetLength) returns Ok(out) with len(out) =
\* targetLength, out starting with data and every appended byte equal to
\* targetLength - len(data) when that difference is in 0..255, and an error
\* carrying no output when it is negative or at least 256.
C4_PadTotal ==
    padResult # NoResult =>
        LET n == Len(padBytes)
            d == padLength - n IN
        /\ (0 <= d /\ d <= U8Range - 1) =>
              /\ padResult.tag = "Ok"
              /\ Len(padResult.val) = padLength
              /\ SubSeq(padResult.val, 1, n) = padBytes
              /\ \A i \in (n + 1)..padLength : padResult.val[i] = d
        /\ (d < 0 \/ d >= U8Range) =>
              /\ padResult.tag = "Err"
              /\ padResult.val = <<>>

C4_Witness ==
    /\ padPc = "padded"
    /\ padBytes = YellowSubmarine
    /\ padLength = 20
    /\ padResult = Ok(YellowSubmarine \o <<4, 4, 4, 4>>)

----------------------------------------------------------------------------
(* Claims about the mode layer (checked under SpecCBC) *)

\* C5: for every 16-byte key, 16-byte IV and plaintext of any length
\* (empty and whole multiples of 16 included),
\* decrypt_cbc(key, iv, encrypt_cbc(key, iv, plaintext)) = plaintext.
C5_CbcRoundTrip ==
    cbcPc \in {"decrypted", "tampered", "redecrypted"}
        => cbcDecrypted = Ret(cbcData)

C5_Witness ==
    /\ cbcPc = "decrypted"
    /\ Len(cbcData) = 2 * BlockSize
    /\ cbcDecrypted = Ret(cbcData)

\* The blocks of a byte string, numbered from 0 like the ciphertext's.
BlockOf(j) == (j - 1) \div BlockSize

\* C7: if c' is c with bit b of ciphertext block i flipped and c has at
\* least i+2 blocks, the pre-strip plaintext of c' differs from that of c
\* in block i+1 by exactly bit b and equals it in every block other than i
\* and i+1.
C7_BitFlipPropagation ==
    (cbcPc = "redecrypted"
        /\ cbcFlip.block + 2 <= Len(cbcEncrypted.val) \div BlockSize) =>
        /\ cbcPadded.tag = "Ret"
        /\ cbcTamperedPadded.tag = "Ret"
        /\ Len(cbcTamperedPadded.val) = Len(cbcPadded.val)
        /\ \A j \in 1..Len(cbcPadded.val) :
              IF BlockOf(j) = cbcFlip.block + 1
              THEN cbcTamperedPadded.val[j] =
                      Xor8(cbcPadded.val[j],
                           IF (j - 1) % BlockSize = cbcFlip.bit \div 8
                           THEN 2 ^ (cbcFlip.bit % 8) ELSE 0)
              ELSE BlockOf(j) # cbcFlip.block
                      => cbcTamperedPadded.val[j] = cbcPadded.val[j]

C7_Witness ==
    /\ cbcPc = "redecrypted"
    /\ cbcFlip = [block |-> 1, bit |-> 64]
    /\ Len(cbcEncrypted.val) = 3 * BlockSize
    /\ cbcTamperedPadded.tag = "Ret"
    /\ cbcTamperedPadded.val[2 * BlockSize + 9]
          = Xor8(cbcPadded.val[2 * BlockSize + 9], 1)
    /\ SubSeq(cbcTamperedPadded.val, BlockSize + 1, 2 * BlockSize)
          # SubSeq(cbcPadded.val, BlockSize + 1, 2 * BlockSize)

\* C14: for every key, IV and ciphertext whose length is a multiple of 16
\* (tampered ones whose trailing bytes decrypt to invalid padding and the
\* empty ciphertext included) decrypt_cbc completes instead of aborting.
C14_DecryptCbcNeverAborts ==
    cbcPc \in {"redecrypted", "truncated"}
        => cbcTamperedDecrypted.tag # "Panic"

----------------------------------------------------------------------------
(* Claims about the profile oracle (checked under SpecCookie) *)

\* C9: for every key, splicing blocks 0, 1, 2 and a copy of block 1 of the
\* cookie encrypt_cookie returns for challenge_13's email gives a ciphertext
\* that decrypt_cookie maps to a profile whose role is "admin", although the
\* submitted email contains neither '&' nor '='.
C9_CutAndPasteForgesAdmin ==
    (ckPc = "forged_decrypted" /\ ckEmail = Challenge13Email) =>
        /\ \A i \in 1..Len(ckEmail) : ckEmail[i] \notin {Amp, Equals}
        /\ ckTampered.tag = "Ret"
        /\ ckProfile.tag = "Ret"
        /\ StrRole \in DOMAIN ckProfile.val
        /\ ckProfile.val[StrRole] = StrAdmin

C9_Witness ==
    /\ ckPc = "forged_decrypted"
    /\ ckEmail = Challenge13Email
    /\ ckKey = KeyB
    /\ ckProfile.tag = "Ret"
    /\ ckProfile.val[StrRole] = StrAdmin

\* C10: for every email, decrypt_cookie(encrypt_cookie(email)) is the
\* mapping with exactly role -> "user", uid -> "10" and email -> the email
\* without its '&' and '=' characters; "foo@bar.com&role=admin" gives email
\* "foo@bar.comroleadmin" and role "user".
C10_ProfileSanitized ==
    ckPc = "decrypted" =>
        /\ ckProfile.tag = "Ret"
        /\ DOMAIN ckProfile.val = {StrEmail, StrUid, StrRole}
        /\ ckProfile.val[StrRole] = StrUser
        /\ ckProfile.val[StrUid] = StrTen
        /\ ckProfile.val[StrEmail]
              = SelectSeq(ckEmail, LAMBDA c : c \notin {Amp, Equals})
        /\ ckEmail = TestEmail => ckProfile.val[StrEmail] = TestEmailSanitized

C10_Witness ==
    /\ ckPc = "decrypted"
    /\ ckEmail = TestEmail
    /\ ckProfile.tag = "Ret"
    /\ ckProfile.val[StrEmail] = TestEmailSanitized
    /\ ckProfile.val[StrRole] = StrUser

----------------------------------------------------------------------------
(* Claims about the CBC cookie oracle (checked under SpecCbcCookie) *)

\* C8: for every key and IV, encrypting challenge_16's 32-byte userdata
\* (which has no ';' or '=' and passes sanitization unchanged), then XOR-ing
\* 1 into ciphertext bytes 32, 38 and 43, gives a ciphertext whose oracle
\* decryption contains ";admin=true;".
C8_BitFlipInjectsAdmin ==
    (coPc = "tampered_decrypted" /\ coUserdata = Challenge16Userdata) =>
        /\ cbc_cookie_sanitize(coUserdata) = coUserdata
        /\ coResult.tag = "Ret"
        /\ Contains(coResult.val, AdminTrue)

C8_Witness ==
    /\ coPc = "tampered_decrypted"
    /\ coUserdata = Challenge16Userdata
    /\ coKey = YellowSubmarine
    /\ coIv = IvAlphabet
    /\ coResult.tag = "Ret"
    /\ Contains(coResult.val, AdminTrue)

----------------------------------------------------------------------------
(* Claims about the byte-at-a-time attack (checked under SpecSuffix) *)

\* C6: for an oracle encrypt(x) = ECB(key, x ++ suffix), any key and any
\* fixed suffix, decrypt_ecb_suffix returns exactly the suffix, no fewer and
\* no more bytes.
C6_SuffixRecoveredExactly ==
    sufPc = "done" => sufResult = Ret(to_string(sufSuffix))

----------------------------------------------------------------------------
(* Claims about parse_cookie (checked under SpecParse) *)

\* C18: for every '&'-delimited token, parse_cookie maps the text before the
\* token's first '=' to the whole remainder after that first '=' ('a=b=c'
\* gives a -> 'b=c'), and a token without '=' to the empty string.  (When
\* two tokens have the same key the map holds the later one.)
C18_SplitsOnFirstEquals ==
    psPc = "parsed" =>
        LET tokens == Split(psString, Amp)
            eqs(t) == {i \in 1..Len(t) : t[i] = Equals}
            first(t) == CHOOSE i \in eqs(t) : \A j \in eqs(t) : i <= j
            keyOf(t) == IF eqs(t) = {} THEN t ELSE SubSeq(t, 1, first(t) - 1)
            restOf(t) == IF eqs(t) = {} THEN <<>>
                         ELSE SubSeq(t, first(t) + 1, Len(t)) IN
        \A k \in 1..Len(tokens) :
            (\A j \in (k + 1)..Len(tokens) :
                keyOf(tokens[j]) # keyOf(tokens[k]))
            => /\ keyOf(tokens[k]) \in DOMAIN psMap.val
               /\ psMap.val[keyOf(tokens[k])] = restOf(tokens[k])

----------------------------------------------------------------------------
(* Claims about ECB detection (checked under SpecDetect) *)

\* C12: detect_ecb(bytes, blockSize) is true exactly when two of the
\* consecutive blockSize-byte blocks of bytes (the last one possibly short)
\* are equal; max_repeated_blocks is the largest number of occurrences of one
\* block.  Empty input and input with all-distinct blocks are not flagged.
C12_DetectIffRepeatedBlock ==
    (dePc = "done" /\ deBlockSize >= 1) =>
        LET n == (Len(deBytes) + deBlockSize - 1) \div deBlockSize
            block(k) == SubSeq(deBytes, (k - 1) * deBlockSize + 1,
                               Min(k * deBlockSize, Len(deBytes)))
            occurrences(k) == Cardinality({j \in 1..n : block(j) = block(k)})
        IN /\ deDetected =
                Ret(\E i, j \in 1..n : i < j /\ block(i) = block(j))
           /\ deCount.tag = "Ret"
           /\ \A k \in 1..n : occurrences(k) <= deCount.val
           /\ n > 0 => \E k \in 1..n : occurrences(k) = deCount.val
           /\ n = 0 => deCount.val = 0

\* The ECB encryption of 64 identical plaintext blocks is flagged.
C12_Witness ==
    /\ dePc = "done"
    /\ deBlockSize = BlockSize
    /\ Len(deBytes) = 65 * BlockSize
    /\ deCount = Ret(64)
    /\ deDetected = Ret(TRUE)

----------------------------------------------------------------------------
(* Claims about block size detection (checked under SpecBlockSize) *)

\* C11: for an oracle encrypt(x) = ECB(key, x ++ suffix) with a block size
\* below 40, every key and every suffix content, detect_block_size returns
\* Some(block size), never a smaller or larger value (16 for AES).
C11_BlockSizeDetected ==
    (bsPc = "done" /\ bsBlockSize < MaxBlockSizeProbe)
        => bsResult = Some(bsBlockSize)

----------------------------------------------------------------------------
(* Claims about mode detection (checked under SpecOracle) *)

----------------------------------------------------------------------------
(* Claims about the single-byte brute force (checked under SpecBrute) *)

\* C15: single_byte_brute_force returns the key byte k in 0..255 whose
\* decoding ciphertext XOR k has the maximum score among all 256 candidates
\* that decode to scoreable text, with that score and decoding; among several
\* bytes at the maximum the lowest is returned.  A ciphertext whose best
\* decoding is under key 0xFF returns key 0xFF.
C15_ArgmaxOverAllBytes ==
    sbPc = "done" =>
        LET decoded(k) == from_utf8(XorRepeat(sbCiphertext, k))
            scoreable == {k \in 0..(U8Range - 1) :
                            /\ decoded(k).tag = "Ok"
                            /\ ~score_text(decoded(k).val).nan}
            score(k) == score_text(decoded(k).val)
            best == sbResult.val IN
        scoreable # {} =>
            /\ best.key \in scoreable
            /\ best.best_score = score(best.key)
            /\ best.result = decoded(best.key).val
            /\ \A k \in scoreable :
                  /\ ~F64Gt(score(k), score(best.key))
                  /\ k < best.key => F64Gt(score(best.key), score(k))

----------------------------------------------------------------------------
(* Claims about get_keysizes (checked under SpecKeysize) *)

\* C16: get_keysizes(ciphertext, range, limit) returns min(limit, |range|)
\* distinct sizes from range, ordered so that the mean normalized Hamming
\* distance over the pairs of the first (up to 4) size-byte chunks is
\* non-decreasing along the list, and no size left out has a strictly
\* smaller mean than one that is returned.
C16_RankedByMeanDistance ==
    ksPc = "done" =>
        LET n == IF ksRange.start < ksRange.end
                 THEN ksRange.end - ksRange.start ELSE 0
            inRange == {s \in ksRange.start..(ksRange.end - 1) : TRUE}
            mean(s) == KeysizeAvg(ksCiphertext, s)
            out == ksResult.val IN
        /\ ksResult.tag = "Ret"
        /\ Len(out) = Min(ksLimit, n)
        /\ \A i \in 1..Len(out) : out[i] \in inRange
        /\ \A i, j \in 1..Len(out) : i # j => out[i] # out[j]
        /\ \A i, j \in 1..Len(out) :
              i < j => ~AvgLess(mean(out[j]), mean(out[i]))
        /\ \A s \in inRange :
              (\A i \in 1..Len(out) : out[i] # s)
                  => \A i \in 1..Len(out) : ~AvgLess(mean(s), mean(out[i]))

\* C17: when a range of two or more sizes holds sizes for which the
\* ciphertext has no two chunks (len(ciphertext) <= size), get_keysizes
\* returns normally and reports none of those sizes.
C17_NoViableCandidateIsAbsent ==
    (/\ ksPc = "done"
     /\ ksRange.start >= 1
     /\ ksRange.end - ksRange.start >= 2
     /\ \E s \in ksRange.start..(ksRange.end - 1) : Len(ksCiphertext) <= s)
    => /\ ksResult.tag = "Ret"
       /\ \A i \in 1..Len(ksResult.val) :
             Len(ksCiphertext) > ksResult.val[i]

----------------------------------------------------------------------------
(* Claims about the oracles' lifetime (checked under SpecLifetime) *)

\* C20: no call on an UnknownStringOracle or a ProfileCookieOracle changes
\* the oracle's key; every encrypt call returns
\* ECB(key, input ++ unknown string) under the key chosen at construction,
\* every encrypt_cookie call ECB(key, profile_for(email)), every
\* decrypt_cookie call the profile parsed under that key; and two calls with
\* the same input return the same result whatever was called in between.
C20_KeyFixedForLifetime ==
    /\ [][ltKey' = ltKey /\ ltCookieKey' = ltCookieKey]_vars
    /\ [](\A i \in 1..Len(ltCalls) :
            LET call == ltCalls[i] IN
            /\ call.op = "encrypt" =>
                  call.output = encrypt_ecb(ltKey, None,
                                    call.input \o UnknownString, TRUE)
            /\ call.op = "encrypt_cookie" =>
                  call.output = encrypt_ecb(ltCookieKey, None,
                                    from_string(profile_for(call.input)), TRUE)
            /\ call.op = "decrypt_cookie" =>
                  call.output = decrypt_cookie(ltCookieKey, call.input)
            /\ \A j \in 1..Len(ltCalls) :
                  (ltCalls[j].op = call.op /\ ltCalls[j].input = call.input)
                      => ltCalls[j].output = call.output)

\* The same input before and after a different call gives the same
\* ciphertext.
C20_Witness ==
    /\ Len(ltCalls) = 3
    /\ ltCalls[1].op = "encrypt"
    /\ ltCalls[2].op = "encrypt"
    /\ ltCalls[3].op = "encrypt"
    /\ ltCalls[1].input = <<0>>
    /\ ltCalls[2].input = Zeros(BlockSize)
    /\ ltCalls[3].input = <<0>>
    /\ ltCalls[1].output.tag = "Ret"
    /\ Len(ltCalls[1].output.val) = 9 * BlockSize
    /\ ltCalls[3].output = ltCalls[1].output
    /\ ltCalls[2].output # ltCalls[1].output

----------------------------------------------------------------------------
(* Claims about what decrypt_ecb_suffix returns for short suffixes          *)

\* C21: decrypt_ecb_suffix never returns padding: for a suffix of L bytes
\* (L shorter than block_size - 1 included) the returned bytes are at most
\* L and are the leading bytes of the suffix, so none of them is a PKCS#7
\* byte the oracle appended after the suffix.
C21_NeverReturnsPadding ==
    sufPc = "done" =>
        /\ Len(sufDecrypted) <= Len(sufSuffix)
        /\ sufDecrypted = SubSeq(sufSuffix, 1, Len(sufDecrypted))

----------------------------------------------------------------------------
(* Claims about the bound of detect_block_size                              *)

\* The sizes i in 1..39 at which the first i bytes of the ciphertext are the
\* same for an input of i and of i + 1 zero bytes.
StableSizes(block_size, key, suffix) ==
    { i \in 1..(MaxBlockSizeProbe - 1) :
        LET old == oracle_encrypt(block_size, key, suffix, Zeros(i))
            new == oracle_encrypt(block_size, key, suffix, Zeros(i + 1)) IN
        /\ i <= Len(old)
        /\ i <= Len(new)
        /\ SubSeq(new, 1, i) = SubSeq(old, 1, i) }

SetMin(S) == CHOOSE m \in S : \A n \in S : m <= n

\* One oracle query has been made per byte of `input`, the last of them
\* with `input` itself.
C22_QueriesBounded ==
    bsPc \in {"loop", "done"} =>
        /\ Len(bsInput) >= 1
        /\ Len(bsInput) <= MaxBlockSizeProbe
        /\ bsInput = Zeros(Len(bsInput))
        /\ bsEncrypted = oracle_encrypt(bsBlockSize, bsKey, bsSuffix, bsInput)
        /\ bsResult.tag # "Panic"
        /\ bsPc = "loop" => (bsResult = NoResult /\ Len(bsInput) = bsI)

C22_NoneExactlyWhenNeverStable ==
    bsPc = "done" =>
        LET stable == StableSizes(bsBlockSize, bsKey, bsSuffix) IN
        /\ bsResult = None <=> stable = {}
        /\ bsResult = None => Len(bsInput) = MaxBlockSizeProbe
        /\ bsResult # None =>
              /\ bsResult = Some(SetMin(stable))
              /\ Len(bsInput) = SetMin(stable) + 1

\* C22: detect_block_size terminates after at most 40 oracle queries, the
\* first with a 1-byte input and each next one with an input one byte
\* longer; it never slices a ciphertext past its end; and it returns None
\* exactly when no size i in 1..39 left the first i ciphertext bytes
\* unchanged between two consecutive inputs (as for a cipher whose block
\* size is 40 or more), Some(first such i) otherwise.
C22_BlockSizeProbeBounded ==
    /\ [](C22_QueriesBounded /\ C22_NoneExactlyWhenNeverStable)
    /\ [][bsPc = "loop" /\ Len(bsInput') = Len(bsInput) + 1]_blockSizeVars
    /\ <>(bsPc = "done")

\* The probe against a cipher of 40-byte blocks made all 40 queries and
\* reported None.
C22_Witness ==
    /\ bsPc = "done"
    /\ bsBlockSize = MaxBlockSizeProbe
    /\ bsResult = None
    /\ Len(bsInput) = MaxBlockSizeProbe
    /\ bsI = MaxBlockSizeProbe - 1
    /\ Len(bsEncrypted) >= MaxBlockSizeProbe

----------------------------------------------------------------------------
(* Claims about transposition                                               *)

\* The bytes c[j] with j mod s = i, in order (j counted from 0).
Residue(c, s, i) ==
    [m \in 1..((Len(c) - i + s - 1) \div s) |-> c[(m - 1) * s + i + 1]]

Occurrences(seq, byte) == Cardinality({k \in DOMAIN seq : seq[k] = byte})

\* C23: for every ciphertext c and key size s with 1 <= s <= len(c),
\* transpose(c.chunks(s)) returns exactly s groups, group i (0 <= i < s)
\* holding in order precisely the bytes c[j] with j mod s = i, and the
\* concatenation of the groups is a permutation of c: no byte is lost or
\* duplicated.
C23_TransposeGroupsByResidue ==
    (trPc = "done" /\ 1 <= trSize /\ trSize <= Len(trCiphertext)) =>
        /\ trResult.tag = "Ret"
        /\ Len(trResult.val) = trSize
        /\ \A i \in 0..(trSize - 1) :
              trResult.val[i + 1] = Residue(trCiphertext, trSize, i)
        /\ LET all == Concat(trResult.val) IN
           /\ Len(all) = Len(trCiphertext)
           /\ \A byte \in 0..(U8Range - 1) :
                 Occurrences(all, byte) = Occurrences(trCiphertext, byte)

\* Five distinct bytes in chunks of three: the short final chunk reaches
\* the first two groups only.
C23_Witness ==
    /\ trPc = "done"
    /\ trCiphertext = <<1, 2, 3, 4, 5>>
    /\ trSize = 3
    /\ trResult = Ret(<< <<1, 4>>, <<2, 5>>, <<3>> >>)

====
